---- MODULE Spec2Model ----
(***************************************************************************)
(* Verification model of the mmsstv-portable SSTV codec: the mode          *)
(* registry (modes.cpp), the VIS encoder (vis.cpp), the oscillator         *)
(* (vco.cpp), the TX driver (encoder.cpp) and the RX sync/VIS state        *)
(* machine with its image assembler (decoder.cpp).                         *)
(*                                                                         *)
(* Numbers that are doubles in the source are kept as exact rationals:     *)
(* durations in 1/TicksPerMs of a millisecond, oscillator phase in         *)
(* 1/PhaseDen of a table entry, frequencies in 1/FreqDen of a hertz.  A    *)
(* transmitted sample is the pair of the sine-table                        *)
(* entry it was read from and the frequency the oscillator advanced by.    *)
(* The receiver's tone detectors are modelled as ideal discriminators:     *)
(* a tank answers TankOn when the sample's frequency lies within half its  *)
(* bandwidth of its centre and 0 otherwise.                                *)
(***************************************************************************)
EXTENDS Integers, Sequences, FiniteSets, TLC

VARIABLES dec, enc, visenc, input, ret, hist

vars == <<dec, enc, visenc, input, ret, hist>>

(***************************************************************************)
(* Bounds of the model                                                     *)
(***************************************************************************)
SampleRate == 1000

(***************************************************************************)
(* Small arithmetic helpers                                                *)
(***************************************************************************)
Pow2(n) == 2 ^ n

Bit(v, i) == (v \div Pow2(i)) % 2

SetBit(v, i) == IF Bit(v, i) = 1 THEN v ELSE v + Pow2(i)

RECURSIVE PopCount(_)
PopCount(v) == IF v = 0 THEN 0 ELSE (v % 2) + PopCount(v \div 2)

\* floor(a * b / c) without the intermediate product
MulDiv(a, b, c) == (a \div c) * b + ((a % c) * b) \div c

Abs(x) == IF x < 0 THEN -x ELSE x

(***************************************************************************)
(* Mode registry: sstv_mode_t and mode_table                                *)
(***************************************************************************)
SSTV_R36 == 0
SSTV_R72 == 1
SSTV_AVT90 == 2
SSTV_SCOTTIE1 == 3
SSTV_SCOTTIE2 == 4
SSTV_SCOTTIEX == 5
SSTV_MARTIN1 == 6
SSTV_MARTIN2 == 7
SSTV_SC2_180 == 8
SSTV_SC2_120 == 9
SSTV_SC2_60 == 10
SSTV_PD50 == 11
SSTV_PD90 == 12
SSTV_PD120 == 13
SSTV_PD160 == 14
SSTV_PD180 == 15
SSTV_PD240 == 16
SSTV_PD290 == 17
SSTV_P3 == 18
SSTV_P5 == 19
SSTV_P7 == 20
SSTV_MR73 == 21
SSTV_MR90 == 22
SSTV_MR115 == 23
SSTV_MR140 == 24
SSTV_MR175 == 25
SSTV_MP73 == 26
SSTV_MP115 == 27
SSTV_MP140 == 28
SSTV_MP175 == 29
SSTV_ML180 == 30
SSTV_ML240 == 31
SSTV_ML280 == 32
SSTV_ML320 == 33
SSTV_R24 == 34
SSTV_BW8 == 35
SSTV_BW12 == 36
SSTV_MN73 == 37
SSTV_MN110 == 38
SSTV_MN140 == 39
SSTV_MC110 == 40
SSTV_MC140 == 41
SSTV_MC180 == 42
SSTV_MODE_COUNT == 43

Modes == 0 .. (SSTV_MODE_COUNT - 1)

ModeInfo(m, n, w, h, v, d, c) ==
    [mode |-> m, name |-> n, width |-> w, height |-> h, vis_code |-> v,
     duration_ms |-> d, is_color |-> c]

\* mode_table[mode + 1]; duration_sec is kept in milliseconds
mode_table == <<
    ModeInfo(SSTV_R36,      "Robot 36",  320, 240, 136,  36000, 1),
    ModeInfo(SSTV_R72,      "Robot 72",  320, 240,  12,  72000, 1),
    ModeInfo(SSTV_AVT90,    "AVT 90",    320, 240,  68,  90000, 1),
    ModeInfo(SSTV_SCOTTIE1, "Scottie 1", 320, 256,  60, 109624, 1),
    ModeInfo(SSTV_SCOTTIE2, "Scottie 2", 320, 256, 184,  71089, 1),
    ModeInfo(SSTV_SCOTTIEX, "ScottieDX", 320, 256, 204, 268877, 1),
    ModeInfo(SSTV_MARTIN1,  "Martin 1",  320, 256, 172, 114290, 1),
    ModeInfo(SSTV_MARTIN2,  "Martin 2",  320, 256,  40,  58060, 1),
    ModeInfo(SSTV_SC2_180,  "SC2 180",   320, 256, 183, 182027, 1),
    ModeInfo(SSTV_SC2_120,  "SC2 120",   320, 256,  63, 121734, 1),
    ModeInfo(SSTV_SC2_60,   "SC2 60",    320, 256, 187,  61539, 1),
    ModeInfo(SSTV_PD50,     "PD50",      320, 256, 221,  49684, 1),
    ModeInfo(SSTV_PD90,     "PD90",      320, 256,  99,  89989, 1),
    ModeInfo(SSTV_PD120,    "PD120",     640, 496,  95, 126103, 1),
    ModeInfo(SSTV_PD160,    "PD160",     512, 400, 226, 160883, 1),
    ModeInfo(SSTV_PD180,    "PD180",     640, 496,  96, 187051, 1),
    ModeInfo(SSTV_PD240,    "PD240",     640, 496, 225, 248000, 1),
    ModeInfo(SSTV_PD290,    "PD290",     800, 616, 222, 288682, 1),
    ModeInfo(SSTV_P3,       "P3",        640, 496, 113, 203050, 1),
    ModeInfo(SSTV_P5,       "P5",        640, 496, 114, 304575, 1),
    ModeInfo(SSTV_P7,       "P7",        640, 496, 243, 406100, 1),
    ModeInfo(SSTV_MR73,     "MR73",      320, 256,  69,  73293, 1),
    ModeInfo(SSTV_MR90,     "MR90",      320, 256,  70,  90189, 1),
    ModeInfo(SSTV_MR115,    "MR115",     320, 256,  73, 115277, 1),
    ModeInfo(SSTV_MR140,    "MR140",     320, 256,  74, 140365, 1),
    ModeInfo(SSTV_MR175,    "MR175",     320, 256,  76, 175181, 1),
    ModeInfo(SSTV_MP73,     "MP73",      320, 256,  37,  72960, 1),
    ModeInfo(SSTV_MP115,    "MP115",     320, 256,  41, 115456, 1),
    ModeInfo(SSTV_MP140,    "MP140",     320, 256,  42, 139520, 1),
    ModeInfo(SSTV_MP175,    "MP175",     320, 256,  44, 175360, 1),
    ModeInfo(SSTV_ML180,    "ML180",     640, 496, 133, 180197, 1),
    ModeInfo(SSTV_ML240,    "ML240",     640, 496, 134, 239717, 1),
    ModeInfo(SSTV_ML280,    "ML280",     640, 496, 137, 280389, 1),
    ModeInfo(SSTV_ML320,    "ML320",     640, 496, 138, 320069, 1),
    ModeInfo(SSTV_R24,      "Robot 24",  320, 240, 132,  24000, 1),
    ModeInfo(SSTV_BW8,      "B/W 8",     320, 240, 130,   8028, 0),
    ModeInfo(SSTV_BW12,     "B/W 12",    320, 240, 134,  12000, 0),
    ModeInfo(SSTV_MN73,     "MP73-N",    320, 256,   0,  72960, 1),
    ModeInfo(SSTV_MN110,    "MP110-N",   320, 256,   0, 109824, 1),
    ModeInfo(SSTV_MN140,    "MP140-N",   320, 256,   0, 139520, 1),
    ModeInfo(SSTV_MC110,    "MC110-N",   320, 256,   0, 109696, 1),
    ModeInfo(SSTV_MC140,    "MC140-N",   320, 256,   0, 140416, 1),
    ModeInfo(SSTV_MC180,    "MC180-N",   320, 256,   0, 180352, 1) >>

NoInfo == [mode |-> -1]

\* sstv_get_mode_info: NULL (NoInfo) outside [0, SSTV_MODE_COUNT)
sstv_get_mode_info(mode) ==
    IF mode < 0 \/ mode >= SSTV_MODE_COUNT THEN NoInfo ELSE mode_table[mode + 1]

(***************************************************************************)
(* RX: VIS code map and lookup                                             *)
(***************************************************************************)
\* VIS_CODE_MAP entries << vis_code, mode >> in table order
VIS_CODE_MAP == <<
    <<132, SSTV_R24>>,      <<136, SSTV_R36>>,      <<12,  SSTV_R72>>,
    <<68,  SSTV_AVT90>>,    <<60,  SSTV_SCOTTIE1>>, <<184, SSTV_SCOTTIE2>>,
    <<204, SSTV_SCOTTIEX>>, <<172, SSTV_MARTIN1>>,  <<40,  SSTV_MARTIN2>>,
    <<183, SSTV_SC2_180>>,  <<63,  SSTV_SC2_120>>,  <<187, SSTV_SC2_60>>,
    <<221, SSTV_PD50>>,     <<99,  SSTV_PD90>>,     <<95,  SSTV_PD120>>,
    <<226, SSTV_PD160>>,    <<96,  SSTV_PD180>>,    <<225, SSTV_PD240>>,
    <<222, SSTV_PD290>>,    <<113, SSTV_P3>>,       <<114, SSTV_P5>>,
    <<243, SSTV_P7>>,       <<130, SSTV_BW8>>,      <<134, SSTV_BW12>>,
    <<69,  SSTV_MR73>>,     <<70,  SSTV_MR90>>,     <<73,  SSTV_MR115>>,
    <<74,  SSTV_MR140>>,    <<76,  SSTV_MR175>>,    <<37,  SSTV_MP73>>,
    <<41,  SSTV_MP115>>,    <<42,  SSTV_MP140>>,    <<44,  SSTV_MP175>>,
    <<133, SSTV_ML180>>,    <<134, SSTV_ML240>>,    <<137, SSTV_ML280>>,
    <<138, SSTV_ML320>>,    <<115, SSTV_MN73>>,     <<110, SSTV_MN110>>,
    <<140, SSTV_MN140>>,    <<106, SSTV_MC110>>,    <<141, SSTV_MC140>>,
    <<142, SSTV_MC180>> >>

VIS_MAP_SIZE == Len(VIS_CODE_MAP)

\* the range tests of vis_code_to_mode
IsExtendedOnlyMode(mode) ==
    \/ (mode >= SSTV_MR73 /\ mode <= SSTV_ML320)
    \/ (mode >= SSTV_MN73 /\ mode <= SSTV_MC180)

\* the search loop of vis_code_to_mode from table index i on
RECURSIVE VisMapSearch(_, _, _)
VisMapSearch(vis_code, is_extended, i) ==
    IF i > VIS_MAP_SIZE THEN SSTV_MODE_COUNT
    ELSE LET code == VIS_CODE_MAP[i][1]
             mode == VIS_CODE_MAP[i][2]
         IN  IF code = vis_code /\
                ((is_extended = 1) = IsExtendedOnlyMode(mode))
             THEN mode
             ELSE VisMapSearch(vis_code, is_extended, i + 1)

\* vis_code_to_mode with the is_extended argument dropped: every lookup
\* searches the standard entries
vis_code_to_mode_standard_only(vis_code, is_extended) ==
    IF vis_code = 35 THEN SSTV_MODE_COUNT
    ELSE VisMapSearch(vis_code, 0, 1)

vis_code_to_mode(vis_code, is_extended) ==
    IF is_extended = 0 /\ vis_code = 35 THEN SSTV_MODE_COUNT
    ELSE VisMapSearch(vis_code, is_extended, 1)

(***************************************************************************)
(* RX: decoder object (struct sstv_decoder_s)                              *)
(***************************************************************************)
SYNC_IDLE == 0
SYNC_DETECTED == 1
SYNC_VIS_WAITING == 2
SYNC_VIS_DECODING == 3
SYNC_DATA_WAIT == 4

IMAGE_IDLE == 0
IMAGE_SYNC_WAIT == 1
IMAGE_COMPLETE == 8

SSTV_RX_OK == 0
SSTV_RX_NEED_MORE == 1
SSTV_RX_IMAGE_READY == 2
SSTV_RX_ERROR == -1

\* (int)(ms * sample_rate / 1000.0)
MsToSamples(ms, sample_rate) == (ms * sample_rate) \div 1000

\* decoder_set_sense_levels: s_lvl and s_lvl2 for a sense level
s_lvl(sense_level) ==
    CASE sense_level = 1 -> 3500
      [] sense_level = 2 -> 4800
      [] sense_level = 3 -> 6000
      [] OTHER -> 2400

s_lvl2(sense_level) == 80

\* decoder_reset_state: the fields it assigns; every other field is kept
decoder_reset_state(d) ==
    [d EXCEPT !.sync_state = SYNC_IDLE, !.sync_mode = 0, !.sync_time = 0,
              !.vis_data = 0, !.vis_cnt = 0, !.vis_extended = 0,
              !.pixels = 0, !.width = 0, !.height = 0,
              !.current_line = 0, !.current_col = 0,
              !.img_state = IMAGE_IDLE, !.sample_counter = 0,
              !.samples_per_pixel = 1, !.freq_accum = 0, !.freq_samples = 0]

\* the value-initialised object new sstv_decoder_t() yields
ZeroDecoder ==
    [sample_rate |-> 0, mode_hint |-> 0, detected_mode |-> 0,
     vis_enabled |-> 0, last_status |-> 0, sync_state |-> 0, sync_mode |-> 0,
     sync_time |-> 0, vis_data |-> 0, vis_cnt |-> 0, vis_parity_pending |-> 0,
     vis_extended |-> 0, sense_level |-> 0, pixels |-> 0, width |-> 0,
     height |-> 0, bytes_per_pixel |-> 0, current_line |-> 0,
     current_col |-> 0, img_state |-> 0, sample_counter |-> 0,
     samples_per_pixel |-> 0, freq_accum |-> 0, freq_samples |-> 0]

\* sstv_decoder_create for a positive sample rate
sstv_decoder_create(sample_rate) ==
    decoder_reset_state(
        [ZeroDecoder EXCEPT !.sample_rate = sample_rate,
                            !.mode_hint = SSTV_MODE_COUNT,
                            !.detected_mode = SSTV_MODE_COUNT,
                            !.vis_enabled = 1,
                            !.last_status = SSTV_RX_NEED_MORE,
                            !.sense_level = 0])

\* sstv_decoder_reset
sstv_decoder_reset(d) ==
    [decoder_reset_state(d) EXCEPT !.mode_hint = SSTV_MODE_COUNT,
                                   !.last_status = SSTV_RX_NEED_MORE]

sstv_decoder_set_mode_hint(d, mode) == [d EXCEPT !.mode_hint = mode]

sstv_decoder_set_vis_enabled(d, enable) ==
    [d EXCEPT !.vis_enabled = IF enable # 0 THEN 1 ELSE 0]

(***************************************************************************)
(* RX: tone detectors.  A sample is [v, f]: v the sine-table entry, f the  *)
(* instantaneous frequency in units of 1/FreqDen Hz (f = 0 is silence).    *)
(***************************************************************************)
FreqDen == 1200

TankOn == 10000

\* CIIRTANK at centre Hz / bandwidth Hz followed by |.| and the 50 Hz LPF
Tank(centre, bw, f) ==
    IF f > 0 /\ 2 * Abs(f - centre * FreqDen) <= bw * FreqDen THEN TankOn ELSE 0

\* the four envelopes d11, d12, d13, d19 of decoder_process_sample
Demod(s) ==
    [d11 |-> Tank(1080, 80, s.f), d12 |-> Tank(1200, 100, s.f),
     d13 |-> Tank(1320, 80, s.f), d19 |-> Tank(1900, 100, s.f)]

(***************************************************************************)
(* RX: image assembler                                                     *)
(***************************************************************************)
\* frequency_to_color for the frequency num/den Hz
frequency_to_color(num, den) ==
    IF num <= 1500 * den THEN 0
    ELSE IF num >= 2300 * den THEN 255
    ELSE LET color == (2 * 255 * (num - 1500 * den) + 800 * den) \div (1600 * den)
         IN  IF color < 0 THEN 0 ELSE IF color > 255 THEN 255 ELSE color

\* decoder_store_pixel with channel -1: the byte offsets it writes at the
\* cursor of d, none when the bounds check returns early
decoder_store_pixel(d) ==
    IF d.pixels = 0 THEN {}
    ELSE IF d.current_line < 0 \/ d.current_line >= d.height THEN {}
    ELSE IF d.current_col < 0 \/ d.current_col >= d.width THEN {}
    ELSE LET offset == (d.current_line * d.width + d.current_col) * 3
         IN  {offset, offset + 1, offset + 2}

decoder_process_image_sample_late_wrap(d, freq_11, freq_13, freq_19) ==
    IF d.pixels = 0 THEN d
    ELSE
    LET total_energy == IF freq_11 + freq_13 < 1 THEN 1 ELSE freq_11 + freq_13
        color == frequency_to_color(1500 * total_energy + 800 * freq_13, total_energy)
        a == [d EXCEPT !.freq_accum = @ + color, !.freq_samples = @ + 1,
                       !.sample_counter = @ + 1]
    IN  IF a.sample_counter >= a.samples_per_pixel
        THEN LET col == a.current_col + 1
                 wrap == col > a.width
                 line == IF wrap THEN a.current_line + 1 ELSE a.current_line
             IN  [a EXCEPT !.current_col = IF wrap THEN 0 ELSE col,
                           !.current_line = line,
                           !.img_state = IF wrap /\ line >= a.height
                                         THEN IMAGE_COMPLETE ELSE @,
                           !.sample_counter = 0, !.freq_accum = 0,
                           !.freq_samples = 0]
        ELSE a

\* decoder_process_image_sample (pixel bytes themselves are not kept)
decoder_process_image_sample(d, freq_11, freq_13, freq_19) ==
    IF d.pixels = 0 THEN d
    ELSE
    LET total_energy == IF freq_11 + freq_13 < 1 THEN 1 ELSE freq_11 + freq_13
        color == frequency_to_color(1500 * total_energy + 800 * freq_13, total_energy)
        a == [d EXCEPT !.freq_accum = @ + color, !.freq_samples = @ + 1,
                       !.sample_counter = @ + 1]
    IN  IF a.sample_counter >= a.samples_per_pixel
        THEN LET col == a.current_col + 1
                 wrap == col >= a.width
                 line == IF wrap THEN a.current_line + 1 ELSE a.current_line
             IN  [a EXCEPT !.current_col = IF wrap THEN 0 ELSE col,
                           !.current_line = line,
                           !.img_state = IF wrap /\ line >= a.height
                                         THEN IMAGE_COMPLETE ELSE @,
                           !.sample_counter = 0, !.freq_accum = 0,
                           !.freq_samples = 0]
        ELSE a

\* decoder_allocate_image_buffer; malloc_ok says whether malloc succeeds
decoder_allocate_image_buffer(d, mode, malloc_ok) ==
    LET info == sstv_get_mode_info(mode)
    IN  IF info = NoInfo THEN [ok |-> FALSE, d |-> d]
        ELSE IF ~malloc_ok
        THEN [ok |-> FALSE,
              d |-> [d EXCEPT !.pixels = 0, !.width = 0, !.height = 0,
                              !.bytes_per_pixel = 3]]
        ELSE [ok |-> TRUE,
              d |-> [d EXCEPT !.pixels = 1, !.width = info.width,
                              !.height = info.height, !.bytes_per_pixel = 3,
                              !.current_line = 0, !.current_col = 0,
                              !.img_state = IMAGE_SYNC_WAIT,
                              !.sample_counter = 0, !.freq_accum = 0,
                              !.freq_samples = 0,
                              !.samples_per_pixel =
                                  (info.duration_ms * d.sample_rate)
                                      \div (1000 * info.height * info.width)]]

(***************************************************************************)
(* RX: sync/VIS state machine (decoder_process_sample)                     *)
(***************************************************************************)
\* the 1200 Hz predicate of cases 0 and 1
SyncPredicate(d, e) ==
    /\ e.d12 > e.d19
    /\ e.d12 > s_lvl(d.sense_level)
    /\ (e.d12 - e.d19) >= s_lvl(d.sense_level)

\* case 0: wait for 12 ms of sustained 1200 Hz
SyncCase0(d, e) ==
    IF SyncPredicate(d, e)
    THEN IF d.sync_time = 0
         THEN [d EXCEPT !.sync_time = MsToSamples(12, d.sample_rate)]
         ELSE IF d.sync_time - 1 = 0
              THEN [d EXCEPT !.sync_mode = 1,
                             !.sync_time = MsToSamples(15, d.sample_rate),
                             !.sync_state = SYNC_DETECTED]
              ELSE [d EXCEPT !.sync_time = @ - 1]
    ELSE [d EXCEPT !.sync_time = 0]

\* case 1: the start bit must hold for 15 ms more
SyncCase1(d, e) ==
    IF SyncPredicate(d, e)
    THEN IF d.sync_time - 1 = 0
         THEN [d EXCEPT !.sync_mode = 2,
                        !.sync_time = MsToSamples(30, d.sample_rate),
                        !.vis_data = 0, !.vis_cnt = 8,
                        !.vis_parity_pending = 0, !.vis_extended = 0,
                        !.sync_state = SYNC_VIS_DECODING]
         ELSE [d EXCEPT !.sync_time = @ - 1]
    ELSE [d EXCEPT !.sync_mode = 0, !.sync_state = SYNC_IDLE]

\* the lookup key handed to vis_code_to_mode once eight bits are in
VisLookupKey(vis_data) == vis_data % 256

\* cases 2 and 9, after the eighth bit: b is the decoder with the bit stored
VisByteComplete(b) ==
    LET data_bits == b.vis_data % 128
    IN  IF b.sync_mode = 2
        THEN IF data_bits = 35
             THEN [b EXCEPT !.sync_mode = 9, !.vis_data = 0, !.vis_cnt = 8,
                            !.vis_extended = 1]
             ELSE LET mode == vis_code_to_mode(VisLookupKey(b.vis_data), 0)
                  IN  IF mode # SSTV_MODE_COUNT
                      THEN [b EXCEPT !.detected_mode = mode,
                                     !.sync_state = SYNC_DATA_WAIT,
                                     !.sync_mode = 0]
                      ELSE [b EXCEPT !.sync_mode = 0]
        ELSE LET mode == vis_code_to_mode(VisLookupKey(b.vis_data), 1)
             IN  IF mode # SSTV_MODE_COUNT
                 THEN [b EXCEPT !.detected_mode = mode,
                                !.sync_state = SYNC_DATA_WAIT,
                                !.sync_mode = 0]
                 ELSE [b EXCEPT !.sync_mode = 0]

SyncCase2_ties_to_mark(d, e) ==
    IF d.sync_time - 1 # 0
    THEN [d EXCEPT !.sync_time = @ - 1]
    ELSE IF e.d11 < e.d19 /\ e.d13 < e.d19
            /\ Abs(e.d11 - e.d13) < s_lvl2(d.sense_level)
    THEN [d EXCEPT !.sync_time = 0, !.sync_mode = 0, !.sync_state = SYNC_IDLE]
    ELSE LET bit_pos == 8 - d.vis_cnt
             b == [d EXCEPT !.sync_time = MsToSamples(30, d.sample_rate),
                            !.vis_data = IF e.d11 >= e.d13
                                         THEN SetBit(@, bit_pos) ELSE @,
                            !.vis_cnt = @ - 1]
         IN  IF b.vis_cnt = 0 THEN VisByteComplete(b) ELSE b

\* cases 2 and 9: one bit decision every 30 ms
SyncCase2(d, e) ==
    IF d.sync_time - 1 # 0
    THEN [d EXCEPT !.sync_time = @ - 1]
    ELSE IF e.d11 < e.d19 /\ e.d13 < e.d19
            /\ Abs(e.d11 - e.d13) < s_lvl2(d.sense_level)
    THEN [d EXCEPT !.sync_time = 0, !.sync_mode = 0, !.sync_state = SYNC_IDLE]
    ELSE LET bit_pos == 8 - d.vis_cnt
             b == [d EXCEPT !.sync_time = MsToSamples(30, d.sample_rate),
                            !.vis_data = IF e.d11 > e.d13
                                         THEN SetBit(@, bit_pos) ELSE @,
                            !.vis_cnt = @ - 1]
         IN  IF b.vis_cnt = 0 THEN VisByteComplete(b) ELSE b

\* decoder_process_sample: tone detectors, image sample, then the FSM
decoder_process_sample(d, s) ==
    LET e == Demod(s)
        a == IF d.sync_state = SYNC_DATA_WAIT /\ d.pixels # 0
                /\ d.img_state # IMAGE_COMPLETE
             THEN decoder_process_image_sample(d, e.d11, e.d13, e.d19)
             ELSE d
    IN  CASE a.sync_mode = 0 -> SyncCase0(a, e)
          [] a.sync_mode = 1 -> SyncCase1(a, e)
          [] a.sync_mode \in {2, 9} -> SyncCase2(a, e)
          [] OTHER -> [a EXCEPT !.sync_mode = 0, !.sync_state = SYNC_IDLE]

\* the sample loop of sstv_decoder_feed over samples[lo .. hi]; the state
\* after the left half is computed before the right half is entered
RECURSIVE FeedLoop(_, _, _, _)
FeedLoop(d, samples, lo, hi) ==
    IF d.sample_rate < 0 \/ lo > hi THEN d
    ELSE IF lo = hi THEN decoder_process_sample(d, samples[lo])
    ELSE LET mid == (lo + hi) \div 2
         IN  FeedLoop(FeedLoop(d, samples, lo, mid), samples, mid + 1, hi)

\* decoder_check_vis_ready
decoder_check_vis_ready(d) == d.detected_mode # SSTV_MODE_COUNT

\* sstv_decoder_feed on a non-null decoder: [st |-> status, d |-> decoder]
sstv_decoder_feed(d, samples, malloc_ok) ==
    IF Len(samples) = 0 THEN [st |-> SSTV_RX_ERROR, d |-> d]
    ELSE
    LET a == FeedLoop(d, samples, 1, Len(samples))
    IN  IF decoder_check_vis_ready(a)
        THEN LET r == IF a.pixels = 0
                      THEN decoder_allocate_image_buffer(a, a.detected_mode, malloc_ok)
                      ELSE [ok |-> TRUE, d |-> a]
             IN  IF ~r.ok
                 THEN [st |-> SSTV_RX_ERROR,
                       d |-> [r.d EXCEPT !.last_status = SSTV_RX_ERROR]]
                 ELSE IF r.d.img_state = IMAGE_COMPLETE
                 THEN [st |-> SSTV_RX_IMAGE_READY,
                       d |-> [r.d EXCEPT !.last_status = SSTV_RX_IMAGE_READY]]
                 ELSE [st |-> SSTV_RX_NEED_MORE,
                       d |-> [r.d EXCEPT !.last_status = SSTV_RX_NEED_MORE]]
        ELSE [st |-> SSTV_RX_NEED_MORE,
              d |-> [a EXCEPT !.last_status = SSTV_RX_NEED_MORE]]

\* sstv_decoder_feed_sample
sstv_decoder_feed_sample(d, sample, malloc_ok) ==
    sstv_decoder_feed(d, <<sample>>, malloc_ok)

\* sstv_decoder_get_image: 0 and the view, or -1
sstv_decoder_get_image(d) ==
    IF d.pixels = 0 THEN [rc |-> -1, width |-> 0, height |-> 0]
    ELSE [rc |-> 0, width |-> d.width, height |-> d.height]

\* sstv_decoder_get_state
sstv_decoder_get_state(d) ==
    [current_mode |-> IF d.detected_mode # SSTV_MODE_COUNT
                      THEN d.detected_mode ELSE d.mode_hint,
     vis_enabled |-> d.vis_enabled,
     sync_detected |-> IF d.sync_state # SYNC_IDLE THEN 1 ELSE 0,
     image_ready |-> IF d.last_status = SSTV_RX_IMAGE_READY THEN 1 ELSE 0,
     current_line |-> d.current_line,
     total_lines |-> d.height]

(***************************************************************************)
(* Test signals: runs of one constant tone, as the VIS tests build them    *)
(* (sample_buffer_append_tone / build_vis_samples).                        *)
(***************************************************************************)
\* one sample of a pure tone of hz Hz (hz = 0: silence)
ToneSample(hz) == [v |-> 0, f |-> hz * FreqDen]

\* a run << hz, ms >> rendered as (size_t)(duration * SAMPLE_RATE) samples
RunSamples(run) == [k \in 1 .. MsToSamples(run[2], SampleRate) |-> ToneSample(run[1])]

\* tone of one VIS bit: 1080 Hz for 1, 1320 Hz for 0
BitHz(bit) == IF bit = 1 THEN 1080 ELSE 1320

\* the eight 30 ms windows of one byte, LSB first
ByteRuns(byte) == [i \in 1 .. 8 |-> << BitHz(Bit(byte, i - 1)), 30 >>]

\* leader, break, leader, start bit
HeaderRuns == << <<1900, 300>>, <<1200, 10>>, <<1900, 300>>, <<1200, 30>> >>

HeaderLen == Len(HeaderRuns)

StopRun == <<1200, 30>>

\* silence long enough for a decode retriggered by the stop bit to run out
TailRuns == [i \in 1 .. 9 |-> <<0, 30>>]

\* a header carrying the given bytes, a stop bit and the silent tail
VisScript(bytes) ==
    HeaderRuns
    \o (IF Len(bytes) = 2 THEN ByteRuns(bytes[1]) \o ByteRuns(bytes[2])
        ELSE ByteRuns(bytes[1]))
    \o << StopRun >> \o TailRuns

\* the same with bit window k (1..8) of the first byte replaced by leader tone
NoisyScript(bytes, k) ==
    [VisScript(bytes) EXCEPT ![HeaderLen + k] = <<1900, 30>>]

(***************************************************************************)
(* Operations common to the RX specifications                              *)
(***************************************************************************)
NoEncoder == [mode |-> SSTV_MODE_COUNT]

NoVisEncoder == [state |-> -1]

\* the result r of a feed call becomes the next state
FeedResult(r, fed) ==
    /\ dec' = r.d
    /\ ret' = [op |-> "feed", st |-> r.st]
    /\ hist' = [hist EXCEPT !.pos = @ + fed,
                            !.ready = @ \/ (r.st = SSTV_RX_IMAGE_READY)]

\* one feed call with the samples of the next run of the input
FeedRun ==
    /\ input # << >>
    /\ FeedResult(sstv_decoder_feed(dec, RunSamples(Head(input)), TRUE), 1)
    /\ input' = Tail(input)
    /\ UNCHANGED <<enc, visenc>>

\* sstv_decoder_get_state
GetState ==
    /\ ret.op # "get_state"
    /\ ret' = [op |-> "get_state", state |-> sstv_decoder_get_state(dec)]
    /\ UNCHANGED <<dec, enc, visenc, input, hist>>

(***************************************************************************)
(* SpecVis: a fresh decoder is fed one VIS header, one 30 ms window per    *)
(* feed call; the header carries any byte, or the prefix and any byte.     *)
(***************************************************************************)
Bytes == 0 .. 255

PrefixBytes == {35, 163}

VisInputs ==
    { [bytes |-> <<b>>, noise |-> 0] : b \in Bytes }
    \cup { [bytes |-> <<p, b>>, noise |-> 0] : p \in PrefixBytes, b \in Bytes }
    \cup { [bytes |-> <<60>>, noise |-> k] : k \in 1 .. 8 }

ScriptOf(in) ==
    IF in.noise = 0 THEN VisScript(in.bytes) ELSE NoisyScript(in.bytes, in.noise)

InitVis ==
    /\ dec = sstv_decoder_create(SampleRate)
    /\ enc = NoEncoder
    /\ visenc = NoVisEncoder
    /\ \E in \in VisInputs :
          /\ input = ScriptOf(in)
          /\ hist = [in |-> in, pos |-> 0, ready |-> FALSE]
    /\ ret = [op |-> "create"]

NextVis == FeedRun \/ GetState

SpecVis == InitVis /\ [][NextVis]_vars

(***************************************************************************)
(* Properties of VIS reception (SpecVis)                                   *)
(***************************************************************************)
StandardModes == { m \in Modes : ~IsExtendedOnlyMode(m) }

RegistryCode(m) == sstv_get_mode_info(m).vis_code

\* XOR of the seven data bits of a byte
XorParity7(c) == PopCount(c % 128) % 2

\* seven data bits followed by their XOR as the parity bit
WellFormedByte(c) == (c % 128) + 128 * XorParity7(c)

\* the byte with its parity bit inverted
FlipParity(c) == (c + 128) % 256

\* the header carried exactly these bytes, undisturbed
Sent(bytes) == hist.in.noise = 0 /\ hist.in.bytes = bytes

\* all bit windows of an n-byte header have been fed
BitsFed(n) == hist.pos >= HeaderLen + 8 * n

\* the entries of VIS_CODE_MAP
VisMapEntries == { VIS_CODE_MAP[i] : i \in 1 .. VIS_MAP_SIZE }

\* C5: a VIS byte with the seven data bits of a registered standard mode
\* and the parity bit inverted still locks that mode
C5_ParityFlipStillLocks ==
    \A m \in StandardModes :
        (Sent(<< FlipParity(RegistryCode(m)) >>) /\ BitsFed(1))
            => sstv_decoder_get_state(dec).current_mode = m

\* C6: for every standard mode, a header carrying the seven low bits of
\* the mode's code and their XOR as parity bit makes the decoder report
\* that mode as current_mode
C6_StandardModesLock ==
    \A m \in StandardModes :
        (Sent(<< WellFormedByte(RegistryCode(m)) >>) /\ BitsFed(1))
            => sstv_decoder_get_state(dec).current_mode = m

\* the case of C7: the eighth bit of a byte matching no mode has just been
\* sampled, or the decode has just been abandoned on a noisy bit window
UnrecognisedOrNoise ==
    \/ /\ hist.in.noise = 0 /\ Len(hist.in.bytes) = 1
       /\ hist.in.bytes[1] % 128 # 35
       /\ vis_code_to_mode(hist.in.bytes[1], 0) = SSTV_MODE_COUNT
       /\ hist.pos = HeaderLen + 8
    \/ /\ hist.in.noise = 0 /\ Len(hist.in.bytes) = 2
       /\ vis_code_to_mode(hist.in.bytes[2], 1) = SSTV_MODE_COUNT
       /\ hist.pos = HeaderLen + 16
    \/ /\ hist.in.noise > 0
       /\ hist.pos = HeaderLen + hist.in.noise

\* C7: after eight bits that match no mode, or after the decode is
\* abandoned as noise, the FSM is in IDLE, sync_detected is false, no mode
\* is locked, no buffer is allocated and no feed has returned IMAGE_READY
C7_UnrecognisedVisReturnsToIdle ==
    UnrecognisedOrNoise =>
        /\ dec.sync_state = SYNC_IDLE
        /\ sstv_decoder_get_state(dec).sync_detected = 0
        /\ dec.detected_mode = SSTV_MODE_COUNT
        /\ dec.pixels = 0
        /\ ~hist.ready

\* C8: a first byte with data bits 0x23 locks nothing and opens the second
\* byte, which is matched among the extended entries only; a byte without
\* the prefix is matched among the standard entries only; 0x23,0x45 locks
\* MR73 and 0x86 locks B/W 12 without the prefix, ML240 with it
C8_PrefixSelectsTable ==
    LET bytes == hist.in.bytes
        m == dec.detected_mode
    IN  hist.in.noise = 0 =>
        /\ (Len(bytes) = 2 /\ BitsFed(1) /\ ~BitsFed(2)) =>
              /\ m = SSTV_MODE_COUNT
              /\ dec.pixels = 0
              /\ hist.pos = HeaderLen + 8 =>
                    (dec.sync_mode = 9 /\ dec.vis_extended = 1 /\ dec.vis_cnt = 8)
        /\ (Len(bytes) = 2 /\ BitsFed(2)) =>
              /\ m # SSTV_MODE_COUNT =>
                    (IsExtendedOnlyMode(m) /\ << bytes[2], m >> \in VisMapEntries)
              /\ (\E e \in VisMapEntries : e[1] = bytes[2] /\ IsExtendedOnlyMode(e[2]))
                    => m # SSTV_MODE_COUNT
        /\ (Len(bytes) = 1 /\ BitsFed(1)) =>
              /\ m # SSTV_MODE_COUNT =>
                    (~IsExtendedOnlyMode(m) /\ << bytes[1], m >> \in VisMapEntries)
              /\ (\E e \in VisMapEntries : e[1] = bytes[1] /\ ~IsExtendedOnlyMode(e[2]))
                    => m # SSTV_MODE_COUNT
        /\ (Sent(<<35, 69>>) /\ BitsFed(2)) => m = SSTV_MR73
        /\ (Sent(<<134>>) /\ BitsFed(1)) => m = SSTV_BW12
        /\ (Sent(<<35, 134>>) /\ BitsFed(2)) => m = SSTV_ML240

\* the shared value 0x86 has been received after the prefix and resolved
C8_Witness ==
    /\ Sent(<<35, 134>>)
    /\ hist.pos = HeaderLen + 16
    /\ dec.detected_mode = SSTV_ML240
    /\ dec.sync_state = SYNC_DATA_WAIT

\* C29: once a mode is locked the decoder stays in the line-data state until
\* the image is complete; no input takes it back to idle, start-bit
\* validation or VIS decoding (SpecVis has no reset)
C29_LockedStaysInLineData ==
    [][(dec.sync_state = SYNC_DATA_WAIT /\ dec.img_state # IMAGE_COMPLETE)
           => (dec'.sync_state = SYNC_DATA_WAIT /\ dec'.sync_mode = 0)]_vars

(***************************************************************************)
(* SpecRx: the decoder API under a client that feeds a VIS header run by   *)
(* run and may, at any point, query, reconfigure or reset the decoder.     *)
(***************************************************************************)
MaxResets == 1

MaxConfigCalls == 1

\* the header alone, closed by the stop bit and one window of silence
ShortScript(bytes) == SubSeq(VisScript(bytes), 1, HeaderLen + 8 * Len(bytes) + 2)

RxInputs == { [bytes |-> <<60>>, noise |-> 0], [bytes |-> <<1>>, noise |-> 0] }

HintModes == { SSTV_R36 }

\* sstv_decoder_get_image
GetImage ==
    /\ ret' = [op |-> "get_image", rc |-> sstv_decoder_get_image(dec).rc]
    /\ UNCHANGED <<dec, enc, visenc, input, hist>>

\* sstv_decoder_reset
Reset ==
    /\ hist.resets < MaxResets
    /\ dec' = sstv_decoder_reset(dec)
    /\ ret' = [op |-> "reset"]
    /\ hist' = [hist EXCEPT !.resets = @ + 1]
    /\ UNCHANGED <<enc, visenc, input>>

\* sstv_decoder_set_mode_hint
SetModeHint ==
    /\ hist.configs < MaxConfigCalls
    /\ \E m \in HintModes : dec' = sstv_decoder_set_mode_hint(dec, m)
    /\ ret' = [op |-> "set_mode_hint"]
    /\ hist' = [hist EXCEPT !.configs = @ + 1]
    /\ UNCHANGED <<enc, visenc, input>>

\* sstv_decoder_set_vis_enabled
SetVisEnabled ==
    /\ hist.configs < MaxConfigCalls
    /\ \E e \in {0, 1} : dec' = sstv_decoder_set_vis_enabled(dec, e)
    /\ ret' = [op |-> "set_vis_enabled"]
    /\ hist' = [hist EXCEPT !.configs = @ + 1]
    /\ UNCHANGED <<enc, visenc, input>>

InitRx ==
    /\ dec = sstv_decoder_create(SampleRate)
    /\ enc = NoEncoder
    /\ visenc = NoVisEncoder
    /\ \E in \in RxInputs :
          /\ input = ShortScript(in.bytes)
          /\ hist = [in |-> in, pos |-> 0, ready |-> FALSE,
                     resets |-> 0, configs |-> 0]
    /\ ret = [op |-> "create"]

NextRx == FeedRun \/ GetState \/ GetImage \/ Reset \/ SetModeHint \/ SetVisEnabled

SpecRx == InitRx /\ [][NextRx]_vars

\* C2: every get_image call made before a feed call has returned
\* IMAGE_READY returns an error, so no partly decoded image is handed out
C2_GetImageFailsBeforeReady ==
    (ret.op = "get_image" /\ ~hist.ready) => ret.rc = -1

\* the state the reset contract lists: everything but the VIS switch, which
\* is configuration
ResetScope(d) == [d EXCEPT !.vis_enabled = 1]

\* C3: right after reset the decoder's state (FSM, timers, detected mode,
\* mode hint, VIS accumulator, image buffer, last status) is the state of
\* a freshly created decoder at the same sample rate
C3_ResetEqualsFresh ==
    ret.op = "reset" =>
        ResetScope(dec) = ResetScope(sstv_decoder_create(dec.sample_rate))

\* C27: while VIS decoding is switched off no feed call locks a mode from a
\* VIS header
C27_DisabledVisLocksNothing ==
    [][(dec.vis_enabled = 0 /\ ret'.op = "feed")
           => dec'.detected_mode = dec.detected_mode]_vars

(***************************************************************************)
(* TX: VIS encoder (class VISEncoder)                                      *)
(***************************************************************************)
\* the object the constructor yields
VISEncoder_new ==
    [vis_code |-> 0, state |-> 0, sample_freq |-> 48000,
     samples_remaining |-> 0, is_16bit |-> FALSE]

\* VISEncoder::calculate_parity: odd parity over the eight bits
VISEncoder_calculate_parity(code) ==
    IF PopCount(code % 256) % 2 = 1 THEN 0 ELSE 1

\* VISEncoder::start
VISEncoder_start(v, code, samplerate) ==
    [v EXCEPT !.vis_code = code % 256, !.sample_freq = samplerate,
              !.state = 0, !.is_16bit = FALSE,
              !.samples_remaining = MsToSamples(300, samplerate)]

\* VISEncoder::start_16bit
VISEncoder_start_16bit(v, code, samplerate) ==
    [v EXCEPT !.vis_code = code % 65536, !.sample_freq = samplerate,
              !.state = 0, !.is_16bit = TRUE,
              !.samples_remaining = MsToSamples(300, samplerate)]

VisFinalState(v) == IF v.is_16bit THEN 21 ELSE 13

\* the two VIS tones exchanged
VisBitTone_swapped(byte, idx) == IF Bit(byte, idx) = 1 THEN 1320 ELSE 1080

\* tone of bit idx of a byte: 1080 Hz for 1, 1320 Hz for 0
VisBitTone(byte, idx) == IF Bit(byte, idx) = 1 THEN 1080 ELSE 1320

\* get_frequency while samples of the current state remain
VisHoldTone(v) ==
    LET st == v.state
        lsb == v.vis_code % 256
        msb == (v.vis_code \div 256) % 256
    IN  IF st = 0 \/ st = 2 THEN 1900
        ELSE IF st = 1 \/ st = 3 THEN 1200
        ELSE IF st = VisFinalState(v) - 1 THEN 1200
        ELSE IF ~v.is_16bit /\ st >= 4 /\ st <= 11 THEN VisBitTone(v.vis_code, st - 4)
        ELSE IF v.is_16bit /\ st >= 4 /\ st <= 11 THEN VisBitTone(lsb, st - 4)
        ELSE IF v.is_16bit /\ st >= 12 /\ st <= 19 THEN VisBitTone(msb, st - 12)
        ELSE IF v.is_16bit /\ st = 20 THEN 1200
        ELSE 0

\* get_frequency when the current state has run out: enter the next state
VisNextState(v) ==
    LET st == v.state + 1
        a == [v EXCEPT !.state = st]
        lsb == v.vis_code % 256
        msb == (v.vis_code \div 256) % 256
        bit30 == [a EXCEPT !.samples_remaining = MsToSamples(30, v.sample_freq)]
    IN  IF st = 1
        THEN [fq |-> 1200,
              v |-> [a EXCEPT !.samples_remaining = MsToSamples(10, v.sample_freq)]]
        ELSE IF st = 2
        THEN [fq |-> 1900,
              v |-> [a EXCEPT !.samples_remaining = MsToSamples(300, v.sample_freq)]]
        ELSE IF st = 3 THEN [fq |-> 1200, v |-> bit30]
        ELSE IF ~v.is_16bit /\ st >= 4 /\ st <= 11
        THEN [fq |-> VisBitTone(v.vis_code, st - 4), v |-> bit30]
        ELSE IF v.is_16bit /\ st >= 4 /\ st <= 11
        THEN [fq |-> VisBitTone(v.vis_code, st - 4), v |-> bit30]
        ELSE IF v.is_16bit /\ st = 12
        THEN [fq |-> IF VISEncoder_calculate_parity(lsb) = 1 THEN 1080 ELSE 1320,
              v |-> bit30]
        ELSE IF v.is_16bit /\ st >= 13 /\ st <= 20
        THEN [fq |-> VisBitTone(msb, st - 13), v |-> bit30]
        ELSE IF v.is_16bit /\ st = 21
        THEN [fq |-> IF VISEncoder_calculate_parity(msb) = 1 THEN 1080 ELSE 1320,
              v |-> bit30]
        ELSE IF st = (IF v.is_16bit THEN 22 ELSE 12)
        THEN [fq |-> 1200, v |-> bit30]
        ELSE [fq |-> 0, v |-> [a EXCEPT !.state = VisFinalState(v)]]

\* VISEncoder::get_frequency: [fq |-> tone in Hz (0: complete), v |-> object]
VISEncoder_get_frequency(v) ==
    IF v.state >= VisFinalState(v) THEN [fq |-> 0, v |-> v]
    ELSE IF v.samples_remaining > 0
    THEN [fq |-> VisHoldTone(v),
          v |-> [v EXCEPT !.samples_remaining = @ - 1]]
    ELSE VisNextState(v)

\* VISEncoder::is_complete
VISEncoder_is_complete(v) == v.state >= (IF v.is_16bit THEN 23 ELSE 13)

\* VISEncoder::get_total_samples
VISEncoder_get_total_samples(v) ==
    MsToSamples(IF v.is_16bit THEN 1210 ELSE 910, v.sample_freq)

\* is_narrow_mode
is_narrow_mode(mode) ==
    mode \in {SSTV_MN73, SSTV_MN110, SSTV_MN140, SSTV_MC110, SSTV_MC140, SSTV_MC180}

\* is_mmsstv_vis_mode
is_mmsstv_vis_mode(mode) ==
    mode \in {SSTV_MP73, SSTV_MP115, SSTV_MP140, SSTV_MP175, SSTV_MR73,
              SSTV_MR90, SSTV_MR115, SSTV_MR140, SSTV_MR175, SSTV_ML180,
              SSTV_ML240, SSTV_ML280, SSTV_ML320}

\* get_mmsstv_vis_word: mode byte in the high half, prefix 0x23 in the low
get_mmsstv_vis_word(mode) ==
    CASE mode = SSTV_MP73  -> 9507   [] mode = SSTV_MP115 -> 10531
      [] mode = SSTV_MP140 -> 10787  [] mode = SSTV_MP175 -> 11299
      [] mode = SSTV_MR73  -> 17699  [] mode = SSTV_MR90  -> 17955
      [] mode = SSTV_MR115 -> 18723  [] mode = SSTV_MR140 -> 18979
      [] mode = SSTV_MR175 -> 19491  [] mode = SSTV_ML180 -> 34083
      [] mode = SSTV_ML240 -> 34339  [] mode = SSTV_ML280 -> 35107
      [] mode = SSTV_ML320 -> 35363  [] OTHER -> 0

\* the VIS start of sstv_encoder_generate: 16-bit for a mode with a VIS
\* word, 8-bit with the registry code otherwise
StartVisFor(v, mode, sample_rate) ==
    IF get_mmsstv_vis_word(mode) # 0
    THEN VISEncoder_start_16bit(v, get_mmsstv_vis_word(mode), sample_rate)
    ELSE VISEncoder_start(v, sstv_get_mode_info(mode).vis_code, sample_rate)

(***************************************************************************)
(* SpecVisTx: the VIS encoder, started as sstv_encoder_generate starts it, *)
(* drives a fresh decoder with its tones, one bit time per step.           *)
(***************************************************************************)
\* samples drawn from the VIS encoder per step
VisChunk == 30

\* modes whose registry VIS code is non-zero
VisModes == { m \in Modes : sstv_get_mode_info(m).vis_code # 0 }

\* up to n calls of get_frequency, stopping at the first 0:
\* [fqs |-> tones, v |-> object]
RECURSIVE VisGenerate(_, _)
VisGenerate(v, n) ==
    IF n = 0 THEN [fqs |-> << >>, v |-> v]
    ELSE LET r == VISEncoder_get_frequency(v)
         IN  IF r.fq <= 0 THEN [fqs |-> << >>, v |-> r.v]
             ELSE LET rest == VisGenerate(r.v, n - 1)
                  IN  [fqs |-> << r.fq >> \o rest.fqs, v |-> rest.v]

VisDone(v) == v.state >= VisFinalState(v)

\* the tones g drawn from the VIS encoder are fed in one call
VisFeedOf(g) ==
    /\ visenc' = g.v
    /\ FeedResult(IF Len(g.fqs) = 0 THEN [st |-> ret.st, d |-> dec]
                  ELSE sstv_decoder_feed(dec,
                           [k \in 1 .. Len(g.fqs) |-> ToneSample(g.fqs[k])],
                           TRUE),
                  Len(g.fqs))

\* the next tones of the VIS encoder are fed to the decoder in one call
VisTransfer ==
    /\ ~VisDone(visenc)
    /\ VisFeedOf(VisGenerate(visenc, VisChunk))
    /\ UNCHANGED <<enc, input>>

InitVisTx ==
    /\ dec = sstv_decoder_create(SampleRate)
    /\ enc = NoEncoder
    /\ \E m \in VisModes :
          /\ visenc = StartVisFor(VISEncoder_new, m, SampleRate)
          /\ hist = [mode |-> m, pos |-> 0, ready |-> FALSE]
    /\ input = << >>
    /\ ret = [op |-> "create", st |-> SSTV_RX_NEED_MORE]

NextVisTx == VisTransfer \/ GetState

SpecVisTx == InitVisTx /\ [][NextVisTx]_vars

\* C9: for every mode with a non-zero registry VIS code, the tones the VIS
\* encoder emits for it (8-bit, or 16-bit with the 0x23 prefix) lock exactly
\* that mode in the decoder: never another mode, and that mode once the
\* encoder has finished
C9_VisRoundTrip ==
    /\ dec.detected_mode \in {SSTV_MODE_COUNT, hist.mode}
    /\ VisDone(visenc) => dec.detected_mode = hist.mode

\* a 16-bit header has been sent to its end and has locked its mode
C9_Witness ==
    /\ hist.mode = SSTV_ML240
    /\ VisDone(visenc)
    /\ visenc.is_16bit
    /\ dec.detected_mode = SSTV_ML240

(***************************************************************************)
(* TX: oscillator (class VCO).  The phase is kept exactly, in units of     *)
(* 1/PhaseDen of a sine-table entry.                                       *)
(***************************************************************************)
PhaseDen == 30

\* VCO::VCO followed by setFreeFreq and setGain as sstv_encoder_create calls them
VCO_new(sample_rate, free_freq, gain) ==
    [sample_freq |-> sample_rate,
     table_size |-> 2 * sample_rate,
     c1 |-> (2 * sample_rate * gain) \div sample_rate,
     c2 |-> (2 * sample_rate * free_freq) \div sample_rate,
     phase |-> 0]

\* VCO::initPhase
VCO_initPhase(vco) == [vco EXCEPT !.phase = 0]

\* the phase step for the input num/den
VcoStep(vco, num, den) == vco.c2 * PhaseDen + (vco.c1 * PhaseDen * num) \div den

\* the value of sine_table[idx]: entries idx and table_size/2 - idx hold the
\* same sine, named by the smaller index
SineValue(vco, idx) ==
    LET mirror == ((vco.table_size \div 2) - idx) % vco.table_size
    IN  IF idx <= mirror THEN idx ELSE mirror

\* VCO::process for the input num/den: [out |-> table value,
\* f |-> frequency of the step in 1/FreqDen Hz, vco |-> object]
VCO_process(vco, num, den) ==
    LET step == VcoStep(vco, num, den)
        ph == (vco.phase + step) % (vco.table_size * PhaseDen)
    IN  [out |-> SineValue(vco, ph \div PhaseDen),
         f |-> MulDiv(step * (FreqDen \div PhaseDen), vco.sample_freq, vco.table_size),
         vco |-> [vco EXCEPT !.phase = ph]]

(***************************************************************************)
(* TX: encoder object (struct sstv_encoder_s).  Durations are kept in      *)
(* 1/TicksPerMs of a millisecond, sample fractions in 1/FracDen.           *)
(***************************************************************************)
TicksPerMs == 10000

FracDen == 1000 * TicksPerMs

NoImage == [width |-> 0, height |-> 0]

\* an image whose left half has colour left and right half colour right
Image(w, h, left, right) == [width |-> w, height |-> h, left |-> left, right |-> right]

\* get_pixel_rgb: << r, g, b >>
get_pixel_rgb(image, x, y) ==
    IF image = NoImage THEN <<0, 0, 0>>
    ELSE IF "odd" \in DOMAIN image /\ y % 2 = 1 THEN image.odd
    ELSE IF x < image.width \div 2 THEN image.left ELSE image.right

\* an image whose even rows are those of Image(w, h, left, right) and whose
\* odd rows have the one colour odd
RowImage(w, h, left, right, odd) ==
    [width |-> w, height |-> h, left |-> left, right |-> right, odd |-> odd]

\* color_to_freq
color_to_freq(d) == (d * (2300 - 1500)) \div 256 + 1500

\* get_preamble_ms, in ms
get_preamble_ms(mode) == IF is_narrow_mode(mode) THEN 400 ELSE 800

\* get_line_ms keeps the line time in 1/LineUnit of a millisecond
LineUnit == 100000

\* get_line_ms: line_ms_table[mode + 1], in 1/LineUnit ms
line_ms_table == <<
    15000000, 30000000, 37500000,                         \* R36, R72, AVT90
    42822000, 27769200, 105030000,                        \* Scottie 1, 2, DX
    44644600, 22679800,                                   \* Martin 1, 2
    71104370, 47552248, 24038460,                         \* SC2 180, 120, 60
    38816000, 70304000, 50848000, 80441600,               \* PD50, 90, 120, 160
    75424000, 100000000, 93728000,                        \* PD180, 240, 290
    40937500, 61406250, 81875000,                         \* P3, P5, P7
    28630000, 35230000, 45030000, 54830000, 68430000,     \* MR73 .. MR175
    57000000, 90200000, 109000000, 137000000,             \* MP73 .. MP175
    36330000, 48330000, 56530000, 64530000,               \* ML180 .. ML320
    20000000, 6689709, 10000000,                          \* R24, BW8, BW12
    57000000, 85800000, 109000000,                        \* MN73, MN110, MN140
    42850000, 54850000, 70450000 >>                       \* MC110, MC140, MC180

\* get_line_ms
get_line_ms(mode) ==
    IF mode \in Modes THEN line_ms_table[mode + 1] ELSE line_ms_table[SSTV_SCOTTIE1 + 1]

\* compute_mode_timing: timing->line_count
line_count_of(mode) ==
    CASE mode \in {SSTV_R36, SSTV_R72, SSTV_AVT90} -> 240
      [] mode \in {SSTV_PD50, SSTV_PD90} -> 128
      [] mode \in {SSTV_PD120, SSTV_PD180, SSTV_PD240} -> 248
      [] mode = SSTV_PD160 -> 200
      [] mode = SSTV_PD290 -> 616 \div 2
      [] mode \in {SSTV_P3, SSTV_P5, SSTV_P7} -> 496
      [] mode \in {SSTV_MP73, SSTV_MP115, SSTV_MP140, SSTV_MP175} -> 128
      [] mode \in {SSTV_MN73, SSTV_MN110, SSTV_MN140} -> 128
      [] mode \in {SSTV_ML180, SSTV_ML240, SSTV_ML280, SSTV_ML320} -> 496
      [] mode \in {SSTV_R24, SSTV_BW8, SSTV_BW12} -> 120
      [] OTHER -> 256

\* compute_mode_timing: the fields the driver reads
compute_mode_timing(mode, sample_rate) ==
    [sample_rate |-> sample_rate, line_count |-> line_count_of(mode),
     line_ms |-> get_line_ms(mode)]

\* (size_t)((line_ms * line_count / 1000.0) * sample_rate), computed in
\* parts that stay within 32 bits: whole seconds, whole milliseconds and
\* the fraction of a millisecond of the image time
\* (exact; the double product is one sample lower for MP73 and MN73 at
\* some rates, where 72.96 s * sample_rate is rounded below the integer)
LineSamples(line_ms, line_count, sample_rate) ==
    LET whole == (line_ms \div LineUnit) * line_count
        part == (line_ms % LineUnit) * line_count
        ms == whole + part \div LineUnit
        frac == part % LineUnit
        khz == sample_rate \div 1000
        hz == sample_rate % 1000
        a == frac * khz
        fracSamples == a \div 100 + ((a % 100) * 1000 + frac * hz) \div LineUnit
    IN  (ms \div 1000) * sample_rate + ((ms % 1000) * sample_rate + fracSamples) \div 1000

\* (size_t)(seconds * sample_rate) for a time given in milliseconds
MsSamples(ms, sample_rate) ==
    (ms \div 1000) * sample_rate + ((ms % 1000) * sample_rate) \div 1000

\* recompute_total_samples without the preamble term
recompute_total_samples_no_preamble(e) ==
    LET info == sstv_get_mode_info(e.mode)
        lines == IF e.timing.line_count > 0 /\ e.timing.line_ms > 0
                 THEN LineSamples(e.timing.line_ms, e.timing.line_count, e.sample_rate)
                 ELSE MsSamples(info.duration_ms, e.sample_rate)
        vis == IF e.vis_enabled = 1 /\ info.vis_code # 0
               THEN MsToSamples(IF get_mmsstv_vis_word(e.mode) # 0 THEN 1210 ELSE 910,
                                e.sample_rate)
               ELSE 0
        pre == IF e.preamble_enabled = 1
               THEN MsToSamples(get_preamble_ms(e.mode), e.sample_rate)
               ELSE 0
    IN  [e EXCEPT !.total_samples = lines + vis]

\* recompute_total_samples
recompute_total_samples(e) ==
    LET info == sstv_get_mode_info(e.mode)
        lines == IF e.timing.line_count > 0 /\ e.timing.line_ms > 0
                 THEN LineSamples(e.timing.line_ms, e.timing.line_count, e.sample_rate)
                 ELSE MsSamples(info.duration_ms, e.sample_rate)
        vis == IF e.vis_enabled = 1 /\ info.vis_code # 0
               THEN MsToSamples(IF get_mmsstv_vis_word(e.mode) # 0 THEN 1210 ELSE 910,
                                e.sample_rate)
               ELSE 0
        pre == IF e.preamble_enabled = 1
               THEN MsToSamples(get_preamble_ms(e.mode), e.sample_rate)
               ELSE 0
    IN  [e EXCEPT !.total_samples = lines + vis + pre]

\* push_segment_ms with the duration in ticks: ticks * sample_rate plus the
\* carried fraction, in 1/FracDen of a sample, split at the whole kHz of the
\* rate so that every product stays within 32 bits
push_segment_ms(e, freq, ticks) ==
    IF ticks <= 0 THEN e
    ELSE LET whole == ticks * (e.sample_rate \div 1000)
             rest == (whole % TicksPerMs) * 1000
                     + ticks * (e.sample_rate % 1000) + e.segment_fraction
             samples == whole \div TicksPerMs + rest \div FracDen
             a == [e EXCEPT !.segment_fraction = rest % FracDen]
         IN  IF samples = 0 THEN a
             ELSE [a EXCEPT !.segments =
                       Append(@, [freq |-> freq, samples |-> samples])]

\* write_preamble
write_preamble(e) ==
    LET ms100 == 100 * TicksPerMs
        p(x, f) == push_segment_ms(x, f, ms100)
    IN  IF is_narrow_mode(e.mode)
        THEN p(p(p(p(e, 1900), 2300), 1900), 2300)
        ELSE p(p(p(p(p(p(p(p(e, 1900), 1500), 1900), 1500), 2300), 1500), 2300), 1500)

\* one pixel loop of write_line_sct over columns lo .. hi for channel ch
\* (1 = r, 2 = g, 3 = b); the left part is complete before the right begins
RECURSIVE SctPixels(_, _, _, _, _)
SctPixels(e, ch, t, lo, hi) ==
    IF e.sample_rate < 0 \/ lo > hi THEN e
    ELSE IF lo = hi
    THEN LET px == (lo * e.image.width) \div 320
             rgb == get_pixel_rgb(e.image, px, e.image_line)
         IN  push_segment_ms(e, color_to_freq(rgb[ch]), t)
    ELSE LET mid == (lo + hi) \div 2
         IN  SctPixels(SctPixels(e, ch, t, lo, mid), ch, t, mid + 1, hi)

\* write_line_sct with tw in ticks
write_line_sct(e, tw) ==
    LET t == tw \div 320
        porch == (3 * TicksPerMs) \div 2
        a == push_segment_ms(e, 1500, porch)
        b == SctPixels(a, 2, t, 0, 319)
        c == push_segment_ms(b, 1500, porch)
        d == SctPixels(c, 3, t, 0, 319)
        f == push_segment_ms(d, 1200, 9 * TicksPerMs)
        g == push_segment_ms(f, 1500, porch)
    IN  SctPixels(g, 1, t, 0, 319)

\* the modes whose line writer is modelled
TxModes == {SSTV_SCOTTIE1, SSTV_SCOTTIE2, SSTV_SCOTTIEX}

\* get_ry: << y, ry, by >>, the coefficients in millionths
get_ry(rgb) ==
    LET clamp_0_255(v) == IF v < 0 THEN 0 ELSE IF v > 255 THEN 255 ELSE v
        y == (16000000 + 256773 * rgb[1] + 504097 * rgb[2] + 97900 * rgb[3])
                 \div 1000000
        ry == (128000000 + 439187 * rgb[1] - 367766 * rgb[2] - 71421 * rgb[3])
                  \div 1000000
        by == (128000000 - 148213 * rgb[1] - 290974 * rgb[2] + 439187 * rgb[3])
                  \div 1000000
    IN  << clamp_0_255(y), clamp_0_255(ry), clamp_0_255(by) >>

\* one pixel loop of write_line_mp over columns lo .. hi of image line y for
\* component ch (1 = y, 2 = ry, 3 = by); the left part is complete before
\* the right begins
RECURSIVE MpPixels(_, _, _, _, _, _)
MpPixels(e, ch, y, t, lo, hi) ==
    IF e.sample_rate < 0 \/ lo > hi THEN e
    ELSE IF lo = hi
    THEN push_segment_ms(e, color_to_freq(get_ry(get_pixel_rgb(e.image, lo, y))[ch]), t)
    ELSE LET mid == (lo + hi) \div 2
         IN  MpPixels(MpPixels(e, ch, y, t, lo, mid), ch, y, t, mid + 1, hi)

\* write_line_mp with tw in ticks
write_line_mp(e, tw) ==
    LET width == e.image.width
        t == tw \div width
        a == push_segment_ms(push_segment_ms(e, 1200, 9 * TicksPerMs),
                             1500, TicksPerMs)
        b == MpPixels(a, 1, e.image_line, t, 0, width - 1)
        c == MpPixels(b, 2, e.image_line, t, 0, width - 1)
        d == MpPixels(c, 3, e.image_line, t, 0, width - 1)
        next_line == IF e.image_line + 1 >= e.image.height
                     THEN e.image.height - 1 ELSE e.image_line + 1
    IN  MpPixels(d, 1, next_line, t, 0, width - 1)

\* write_line_pd with tw in ticks: the pixel loops are those of
\* write_line_mp (ry[x] and by[x] are filled from image line image_line)
write_line_pd(e, tw) ==
    LET width == e.image.width
        t == tw \div width
        a == push_segment_ms(push_segment_ms(e, 1200, 20 * TicksPerMs),
                             1500, (208 * TicksPerMs) \div 100)
        b == MpPixels(a, 1, e.image_line, t, 0, width - 1)
        c == MpPixels(b, 2, e.image_line, t, 0, width - 1)
        d == MpPixels(c, 3, e.image_line, t, 0, width - 1)
        next_line == IF e.image_line + 1 >= e.image.height
                     THEN e.image.height - 1 ELSE e.image_line + 1
    IN  MpPixels(d, 1, next_line, t, 0, width - 1)

\* generate_next_line_segments: [ok |-> a line was written, e |-> object]
generate_next_line_segments(e) ==
    IF e.image = NoImage \/ e.timed_line >= e.total_timed_lines
    THEN [ok |-> FALSE, e |-> e]
    ELSE LET a == [e EXCEPT !.segments = << >>, !.segment_index = 0,
                            !.segment_offset = 0]
             b == IF e.timed_line = 0 /\ e.mode \in TxModes
                  THEN push_segment_ms(a, 1200, 9 * TicksPerMs)
                  ELSE a
             tw == CASE e.mode = SSTV_SCOTTIE1 -> (13824 * TicksPerMs) \div 100
                     [] e.mode = SSTV_SCOTTIE2 -> (88064 * TicksPerMs) \div 1000
                     [] e.mode = SSTV_SCOTTIEX -> (3456 * TicksPerMs) \div 10
                     [] e.mode = SSTV_MP73 -> 140 * TicksPerMs
                     [] e.mode = SSTV_PD50 -> (9152 * TicksPerMs) \div 100
                     [] OTHER -> 0
         IN  IF e.mode \in TxModes
             THEN [ok |-> TRUE,
                   e |-> [write_line_sct(b, tw) EXCEPT !.timed_line = @ + 1,
                                                       !.image_line = @ + 1]]
             ELSE IF e.mode = SSTV_MP73
             THEN [ok |-> TRUE,
                   e |-> [write_line_mp(b, tw) EXCEPT !.timed_line = @ + 1,
                                                      !.image_line = @ + 2]]
             ELSE IF e.mode = SSTV_PD50
             THEN [ok |-> TRUE,
                   e |-> [write_line_pd(b, tw) EXCEPT !.timed_line = @ + 1,
                                                      !.image_line = @ + 2]]
             ELSE [ok |-> FALSE, e |-> b]

\* sstv_encoder_create for a valid mode
sstv_encoder_create(mode, sample_rate) ==
    recompute_total_samples(
        [mode |-> mode, sample_rate |-> sample_rate, image |-> NoImage,
         vis_enabled |-> 1, timing |-> compute_mode_timing(mode, sample_rate),
         samples_generated |-> 0, total_samples |-> 0, complete |-> 0,
         vco |-> VCO_new(sample_rate, 1080, 1220), vis |-> VISEncoder_new,
         vis_active |-> 0, preamble_enabled |-> 1, stage |-> 0,
         timed_line |-> 0, image_line |-> 0,
         total_timed_lines |-> compute_mode_timing(mode, sample_rate).line_count,
         segments |-> << >>, segment_index |-> 0, segment_offset |-> 0,
         segment_fraction |-> 0])

\* a set_image that detaches the attached image when it refuses the new one
sstv_encoder_set_image_detaching(e, image) ==
    LET info == sstv_get_mode_info(e.mode)
    IN  IF image.width # info.width \/ image.height # info.height
        THEN [rc |-> -1, e |-> [e EXCEPT !.image = NoImage]]
        ELSE [rc |-> 0,
              e |-> [e EXCEPT !.image = image,
                              !.total_timed_lines = e.timing.line_count]]

\* sstv_encoder_set_image: [rc |-> 0 or -1, e |-> object]
sstv_encoder_set_image(e, image) ==
    LET info == sstv_get_mode_info(e.mode)
    IN  IF image.width # info.width \/ image.height # info.height
        THEN [rc |-> -1, e |-> e]
        ELSE [rc |-> 0,
              e |-> [e EXCEPT !.image = image,
                              !.total_timed_lines = e.timing.line_count]]

\* sstv_encoder_set_vis_enabled
sstv_encoder_set_vis_enabled(e, enable) ==
    recompute_total_samples([e EXCEPT !.vis_enabled = IF enable # 0 THEN 1 ELSE 0])

\* sstv_encoder_reset
sstv_encoder_reset(e) ==
    [e EXCEPT !.samples_generated = 0, !.complete = 0, !.segments = << >>,
              !.segment_index = 0, !.segment_offset = 0,
              !.segment_fraction = 0, !.timed_line = 0, !.image_line = 0,
              !.vis_active = 0,
              !.stage = IF e.preamble_enabled = 1 THEN 0 ELSE 1]

\* sstv_encoder_is_complete
sstv_encoder_is_complete(e) == e.complete

\* the start of a pass that never arms the VIS encoder
GenerateStart_vis_inactive(e) ==
    [e EXCEPT !.segment_fraction = 0, !.segments = << >>,
              !.segment_index = 0, !.segment_offset = 0, !.timed_line = 0,
              !.stage = IF e.preamble_enabled = 1 THEN 0 ELSE 2,
              !.image_line = 0, !.total_timed_lines = e.timing.line_count,
              !.vis_active = 0]

\* the start of a pass in sstv_encoder_generate (samples_generated == 0)
GenerateStart(e) ==
    LET info == sstv_get_mode_info(e.mode)
        a == [e EXCEPT !.segment_fraction = 0, !.segments = << >>,
                       !.segment_index = 0, !.segment_offset = 0,
                       !.timed_line = 0,
                       !.stage = IF e.preamble_enabled = 1 THEN 0 ELSE 1,
                       !.image_line = 0,
                       !.total_timed_lines = e.timing.line_count]
        b == IF e.vis_enabled = 1 /\ info.vis_code # 0 /\ ~is_narrow_mode(e.mode)
             THEN [a EXCEPT !.vis = StartVisFor(@, e.mode, e.sample_rate),
                            !.vis_active = 1]
             ELSE [a EXCEPT !.vis_active = 0]
    IN  IF b.vis_active = 0 /\ b.stage = 1 THEN [b EXCEPT !.stage = 2] ELSE b

NoSample == [v |-> -1, f |-> -1]

\* a silent output sample (0.0f, the oscillator untouched)
SilentSample == [v |-> 0, f |-> 0]

\* the input range test of the oscillator: num/den clamped to [0, 1]
ClampNorm(num, den) == IF num < 0 THEN 0 ELSE IF num > den THEN den ELSE num

\* iterations of the while loop of sstv_encoder_generate up to and including
\* the one that stores a sample or breaks:
\* [e |-> object, out |-> sample or NoSample, stage |-> stage of the sample]
RECURSIVE GenerateOne(_)
GenerateOne(e) ==
    LET a == IF e.stage = 0 /\ e.segments = << >> THEN write_preamble(e) ELSE e
        n == Len(a.segments)
    IN  IF e.stage = 1
        THEN IF e.vis_active = 1
             THEN LET r == VISEncoder_get_frequency(e.vis)
                  IN  IF r.fq <= 0
                      THEN GenerateOne([e EXCEPT !.vis = r.v, !.vis_active = 0,
                                                 !.stage = 2])
                      ELSE LET o == VCO_process(e.vco,
                                        ClampNorm(r.fq - 1080, 1220), 1220)
                           IN  [e |-> [e EXCEPT !.vis = r.v, !.vco = o.vco,
                                                !.samples_generated = @ + 1],
                                out |-> [v |-> o.out, f |-> o.f],
                                stage |-> 1]
             ELSE GenerateOne([e EXCEPT !.stage = 2])
        ELSE IF a.stage = 0 /\ a.segment_index >= n
        THEN GenerateOne([a EXCEPT !.stage = IF a.vis_active = 1 THEN 1 ELSE 2,
                                   !.segments = << >>, !.segment_index = 0,
                                   !.segment_offset = 0])
        ELSE IF a.stage = 2 /\ a.segment_index >= n
        THEN LET g == generate_next_line_segments(a)
             IN  IF ~g.ok
                 THEN [e |-> [g.e EXCEPT !.complete = 1], out |-> NoSample,
                       stage |-> 2]
                 ELSE GenerateOne(g.e)
        ELSE IF a.segment_index >= n THEN GenerateOne(a)
        ELSE LET seg == a.segments[a.segment_index + 1]
             IN  IF a.segment_offset >= seg.samples
                 THEN GenerateOne([a EXCEPT !.segment_index = @ + 1,
                                            !.segment_offset = 0])
                 ELSE IF seg.freq > 0
                 THEN LET o == VCO_process(a.vco,
                                   ClampNorm(seg.freq - 1100, 1200), 1200)
                      IN  [e |-> [a EXCEPT !.vco = o.vco,
                                           !.samples_generated = @ + 1,
                                           !.segment_offset = @ + 1],
                           out |-> [v |-> o.out, f |-> o.f],
                           stage |-> a.stage]
                 ELSE [e |-> [a EXCEPT !.samples_generated = @ + 1,
                                       !.segment_offset = @ + 1],
                       out |-> SilentSample, stage |-> a.stage]

\* the while loop for room for n more samples:
\* [e |-> object, samples |-> output, stages |-> stage of each sample];
\* the first half is complete before the second begins
RECURSIVE GenerateLoop(_, _)
GenerateLoop(e, n) ==
    IF e.sample_rate < 0 \/ n <= 0 THEN [e |-> e, samples |-> << >>, stages |-> << >>]
    ELSE IF n = 1
    THEN LET r == GenerateOne(e)
         IN  IF r.out = NoSample
             THEN [e |-> r.e, samples |-> << >>, stages |-> << >>]
             ELSE [e |-> r.e, samples |-> << r.out >>, stages |-> << r.stage >>]
    ELSE LET left == GenerateLoop(e, n \div 2)
         IN  IF left.e.complete = 1 THEN left
             ELSE LET right == GenerateLoop(left.e, n - n \div 2)
                  IN  [e |-> right.e, samples |-> left.samples \o right.samples,
                       stages |-> left.stages \o right.stages]

\* a generate that starts a new pass when the encoder is complete
sstv_encoder_generate_restarting(e, max_samples) ==
    IF e.image = NoImage
    THEN [e |-> e, samples |-> << >>, stages |-> << >>]
    ELSE GenerateLoop(IF e.samples_generated = 0 \/ e.complete = 1
                      THEN GenerateStart(sstv_encoder_reset(e)) ELSE e,
                      max_samples)

\* sstv_encoder_generate on a non-null encoder and buffer
sstv_encoder_generate(e, max_samples) ==
    IF e.complete = 1 \/ e.image = NoImage
    THEN [e |-> e, samples |-> << >>, stages |-> << >>]
    ELSE GenerateLoop(IF e.samples_generated = 0 THEN GenerateStart(e) ELSE e,
                      max_samples)

(***************************************************************************)
(* SpecLink: one complete transmission.  The encoder's output is handed to *)
(* a fresh decoder chunk by chunk, as the loopback test does.              *)
(***************************************************************************)
\* samples per generate and feed call
LinkChunk == 1000

LinkModes == {SSTV_SCOTTIE1, SSTV_SCOTTIE2}

\* left half mid grey, right half a saturated colour
TestImage(mode) ==
    Image(sstv_get_mode_info(mode).width, sstv_get_mode_info(mode).height,
          <<127, 127, 127>>, <<10, 200, 255>>)

\* the stage sequence prev extended by the stages of further samples,
\* repetitions removed
StageTrace(prev, stages) ==
    LET all == prev \o stages
        marks == { i \in 1 .. Len(all) : i = 1 \/ all[i] # all[i - 1] }
        nth(j) == CHOOSE i \in marks : Cardinality({ x \in marks : x <= i }) = j
    IN  [j \in 1 .. Cardinality(marks) |-> all[nth(j)]]

\* a VIS header is to be sent for this encoder
VisToSend(e) ==
    /\ e.vis_enabled = 1
    /\ sstv_get_mode_info(e.mode).vis_code # 0
    /\ ~is_narrow_mode(e.mode)

\* the results g of generate and r of feed become the next state
TransferOf(g, r) ==
    /\ enc' = g.e
    /\ dec' = r.d
    /\ ret' = [op |-> "feed", st |-> r.st]
    /\ hist' = [hist EXCEPT !.pos = @ + Len(g.samples),
                            !.ready = @ \/ (r.st = SSTV_RX_IMAGE_READY),
                            !.stages = StageTrace(@, g.stages)]

\* the samples of g, if any, go to sstv_decoder_feed
FeedOf(g) ==
    TransferOf(g, IF Len(g.samples) = 0 THEN [st |-> ret.st, d |-> dec]
                  ELSE sstv_decoder_feed(dec, g.samples, TRUE))

\* sstv_encoder_generate for one chunk, then sstv_decoder_feed of what it gave
Transfer ==
    /\ enc.complete = 0
    /\ FeedOf(sstv_encoder_generate(enc, LinkChunk))
    /\ UNCHANGED <<visenc, input>>

InitLink ==
    /\ dec = sstv_decoder_create(SampleRate)
    /\ \E m \in LinkModes, v \in {0, 1} :
          enc = sstv_encoder_set_vis_enabled(
                    sstv_encoder_set_image(sstv_encoder_create(m, SampleRate),
                                           TestImage(m)).e, v)
    /\ visenc = NoVisEncoder
    /\ input = << >>
    /\ hist = [pos |-> 0, ready |-> FALSE, stages |-> << >>]
    /\ ret = [op |-> "create", st |-> SSTV_RX_NEED_MORE]

NextLink == Transfer

SpecLink == InitLink /\ [][NextLink]_vars

\* C1: when every sample of a complete Scottie 1 transmission with VIS has
\* been fed to the fresh decoder, some feed call has returned IMAGE_READY
\* and get_state reports current_mode = Scottie 1
C1_Scottie1RoundTrip ==
    (enc.mode = SSTV_SCOTTIE1 /\ enc.vis_enabled = 1 /\ enc.complete = 1) =>
        /\ hist.ready
        /\ sstv_decoder_get_state(dec).current_mode = SSTV_SCOTTIE1

\* C10: the stages of the samples of a pass appear in the order preamble (0),
\* VIS (1), lines (2) and never go back; the VIS stage is left out only
\* when no VIS header is to be sent
C10_StageOrder ==
    /\ hist.stages \in { << >>, <<0>>, <<0, 1>>, <<0, 1, 2>>, <<0, 2>> }
    /\ hist.stages = <<0, 2>> => ~VisToSend(enc)
    /\ hist.stages = <<0, 1, 2>> => VisToSend(enc)

\* a pass with a VIS header has run to completion through all three stages
C10_Witness ==
    /\ enc.complete = 1
    /\ VisToSend(enc)
    /\ hist.stages = <<0, 1, 2>>
    /\ hist.pos = enc.samples_generated

(***************************************************************************)
(* SpecTxReset: an encoder generates part of a pass, is reset, and         *)
(* generates again.  The output values of both passes are recorded.        *)
(***************************************************************************)
\* generate calls per pass
MaxGenerateCalls == 2

\* values of max_samples
GenerateSizes == {1, 300, 1000}

NoDecoder == [sample_rate |-> 0]

\* the output values buffer[0 .. n-1] of one generate call
OutputOf(samples) == [k \in 1 .. Len(samples) |-> samples[k].v]

\* the result g of a generate call becomes the next state
GenerateResult(g) ==
    /\ enc' = g.e
    /\ ret' = [op |-> "generate", n |-> Len(g.samples)]
    /\ hist' = IF hist.pass = 1
               THEN [hist EXCEPT !.calls = @ + 1,
                                 !.first = @ \o OutputOf(g.samples)]
               ELSE [hist EXCEPT !.calls = @ + 1,
                                 !.second = @ \o OutputOf(g.samples)]

\* generate calls that skip the test for an attached image
Generate_imageless ==
    /\ hist.calls < MaxGenerateCalls
    /\ \E n \in GenerateSizes :
          GenerateResult(IF enc.complete = 1
                         THEN [e |-> enc, samples |-> << >>, stages |-> << >>]
                         ELSE GenerateLoop(IF enc.samples_generated = 0
                                           THEN GenerateStart(enc) ELSE enc, n))
    /\ UNCHANGED <<dec, visenc, input>>

\* sstv_encoder_generate
Generate ==
    /\ hist.calls < MaxGenerateCalls
    /\ \E n \in GenerateSizes : GenerateResult(sstv_encoder_generate(enc, n))
    /\ UNCHANGED <<dec, visenc, input>>

\* sstv_encoder_reset after the first pass has produced output
TxReset ==
    /\ hist.pass = 1
    /\ hist.calls > 0
    /\ enc' = sstv_encoder_reset(enc)
    /\ ret' = [op |-> "reset", n |-> 0]
    /\ hist' = [hist EXCEPT !.pass = 2, !.calls = 0]
    /\ UNCHANGED <<dec, visenc, input>>

InitTxReset ==
    /\ dec = NoDecoder
    /\ \E m \in TxModes, v \in {0, 1} :
          enc = sstv_encoder_set_vis_enabled(
                    sstv_encoder_set_image(sstv_encoder_create(m, SampleRate),
                                           TestImage(m)).e, v)
    /\ visenc = NoVisEncoder
    /\ input = << >>
    /\ hist = [pass |-> 1, calls |-> 0, first |-> << >>, second |-> << >>]
    /\ ret = [op |-> "create", n |-> 0]

NextTxReset == Generate \/ TxReset

SpecTxReset == InitTxReset /\ [][NextTxReset]_vars

\* C4: after generate, reset, generate, the samples of the second pass are
\* the samples the first pass produced from its start, value for value
C4_ResetRepeatsOutput ==
    hist.pass = 2 =>
        \A i \in 1 .. Len(hist.second) :
            i <= Len(hist.first) => hist.second[i] = hist.first[i]

(***************************************************************************)
(* SpecTxPass: whole encoding passes, drawn with the buffer size of the    *)
(* smoke test; generate is also called after the pass is complete, and a   *)
(* complete encoder may be reset for a further pass.                       *)
(***************************************************************************)
\* float buffer[4096]
TxChunk == 4096

\* the result g of a generate call for n samples becomes the next state
ChunkResult(g, n) ==
    /\ enc' = g.e
    /\ ret' = [op |-> "generate", n |-> Len(g.samples), max |-> n]
    /\ hist' = [hist EXCEPT !.after = @ \/ (enc.complete = 1)]

\* a call that leaves the last place of the buffer unused
GenerateChunk_short ==
    /\ ChunkResult(sstv_encoder_generate(enc, TxChunk - 1), TxChunk)
    /\ UNCHANGED <<dec, visenc, input>>

\* sstv_encoder_generate(encoder, buffer, 4096)
GenerateChunk ==
    /\ ChunkResult(sstv_encoder_generate(enc, TxChunk), TxChunk)
    /\ UNCHANGED <<dec, visenc, input>>

\* sstv_encoder_reset of a complete encoder
Restart ==
    /\ enc.complete = 1
    /\ hist.resets < MaxResets
    /\ enc' = sstv_encoder_reset(enc)
    /\ ret' = [op |-> "reset", n |-> 0, max |-> 0]
    /\ hist' = [hist EXCEPT !.resets = @ + 1, !.after = FALSE]
    /\ UNCHANGED <<dec, visenc, input>>

InitTxPass ==
    /\ dec = NoDecoder
    /\ \E m \in LinkModes, v \in {0, 1} :
          enc = sstv_encoder_set_vis_enabled(
                    sstv_encoder_set_image(sstv_encoder_create(m, SampleRate),
                                           TestImage(m)).e, v)
    /\ visenc = NoVisEncoder
    /\ input = << >>
    /\ hist = [resets |-> 0, after |-> FALSE]
    /\ ret = [op |-> "create", n |-> 0, max |-> 0]

NextTxPass == GenerateChunk \/ Restart

SpecTxPass == InitTxPass /\ [][NextTxPass]_vars

\* what a generate call for TxChunk samples can return
GenerateReturns == [op : {"generate"}, n : 0 .. TxChunk, max : {TxChunk}]

\* a generate call on an encoder that is not complete, as the caller sees it
GenerateCall ==
    /\ enc.complete = 0
    /\ ret' \in GenerateReturns

\* the caller keeps calling generate while is_complete() returns 0
FairSpecTxPass == SpecTxPass /\ WF_ret(GenerateCall)

\* C11: a generate call on a complete encoder returns 0 and leaves the
\* encoder, samples_generated included, as it was; only reset ends this
C11_CompleteIsSticky ==
    [][(enc.complete = 1 /\ ret'.op = "generate")
           => (ret'.n = 0 /\ enc' = enc)]_vars

\* generate has been called on a complete encoder and returned 0
C11_Witness ==
    /\ enc.complete = 1
    /\ hist.after
    /\ ret.op = "generate"
    /\ ret.n = 0
    /\ enc.samples_generated > 0

C13_GeneratedWithinTotal ==
    enc.samples_generated <= enc.total_samples

(***************************************************************************)
(* SpecTxConfig: generate calls of one pass interleaved with set_image and *)
(* set_vis_enabled.                                                        *)
(***************************************************************************)
\* sstv_encoder_set_vis_enabled
TxSetVisEnabled ==
    /\ hist.configs < MaxConfigCalls
    /\ \E v \in {0, 1} : enc' = sstv_encoder_set_vis_enabled(enc, v)
    /\ ret' = [op |-> "set_vis_enabled", n |-> 0]
    /\ hist' = [hist EXCEPT !.configs = @ + 1]
    /\ UNCHANGED <<dec, visenc, input>>

\* sstv_encoder_set_image with an image of the mode's size
TxSetImage ==
    /\ hist.configs < MaxConfigCalls
    /\ enc' = sstv_encoder_set_image(enc, TestImage(enc.mode)).e
    /\ ret' = [op |-> "set_image",
               n |-> sstv_encoder_set_image(enc, TestImage(enc.mode)).rc]
    /\ hist' = [hist EXCEPT !.configs = @ + 1]
    /\ UNCHANGED <<dec, visenc, input>>

InitTxConfig ==
    /\ dec = NoDecoder
    /\ \E m \in LinkModes, v \in {0, 1} :
          enc = sstv_encoder_set_vis_enabled(
                    sstv_encoder_set_image(sstv_encoder_create(m, SampleRate),
                                           TestImage(m)).e, v)
    /\ visenc = NoVisEncoder
    /\ input = << >>
    /\ hist = [pass |-> 1, calls |-> 0, configs |-> 0,
               first |-> << >>, second |-> << >>]
    /\ ret = [op |-> "create", n |-> 0]

NextTxConfig == Generate \/ TxSetVisEnabled \/ TxSetImage

SpecTxConfig == InitTxConfig /\ [][NextTxConfig]_vars

\* sstv_encoder_get_progress(a) <= sstv_encoder_get_progress(b), for
\* non-zero totals: samples_generated / total_samples compared crosswise
ProgressLeq(a, b) ==
    a.samples_generated * b.total_samples
        <= b.samples_generated * a.total_samples

\* C16: no generate, set_image or set_vis_enabled call lowers the value of
\* get_progress
C16_ProgressMonotonic ==
    [][ProgressLeq(enc, enc')]_vars

(***************************************************************************)
(* SpecTxImage: set_image with images of the right and of wrong sizes and  *)
(* with no image, and generate, on encoders with and without an image.     *)
(***************************************************************************)
\* images handed to set_image: the mode's size, one column more, one row
\* less, and no image at all
ImageChoices(mode) ==
    LET good == TestImage(mode)
    IN  {good, [good EXCEPT !.width = @ + 1], [good EXCEPT !.height = @ - 1],
         NoImage}

\* sstv_encoder_set_image
TxSetAnyImage ==
    /\ hist.configs < MaxConfigCalls
    /\ \E image \in ImageChoices(enc.mode) :
          /\ enc' = sstv_encoder_set_image(enc, image).e
          /\ ret' = [op |-> "set_image",
                     n |-> sstv_encoder_set_image(enc, image).rc,
                     image |-> image]
    /\ hist' = [hist EXCEPT !.configs = @ + 1]
    /\ UNCHANGED <<dec, visenc, input>>

InitTxImage ==
    /\ dec = NoDecoder
    /\ \E m \in LinkModes, v \in {0, 1} :
        \E image \in ImageChoices(m) :
          enc = sstv_encoder_set_vis_enabled(
                    sstv_encoder_set_image(sstv_encoder_create(m, SampleRate),
                                           image).e, v)
    /\ visenc = NoVisEncoder
    /\ input = << >>
    /\ hist = [pass |-> 1, calls |-> 0, configs |-> 0,
               first |-> << >>, second |-> << >>]
    /\ ret = [op |-> "create", n |-> 0]

NextTxImage == Generate \/ TxSetAnyImage

SpecTxImage == InitTxImage /\ [][NextTxImage]_vars

\* the image does not have the geometry of the mode
Mismatch(image, mode) ==
    \/ image.width # sstv_get_mode_info(mode).width
    \/ image.height # sstv_get_mode_info(mode).height

\* C22: set_image with an image whose width or height differs from the
\* mode's returns an error and leaves every field of the encoder unchanged
C22_MismatchIsRefused ==
    [][(ret'.op = "set_image" /\ Mismatch(ret'.image, enc.mode))
           => (ret'.n = -1 /\ enc' = enc)]_vars

C22_Witness ==
    /\ ret.op = "set_image"
    /\ ret.n = -1
    /\ ret.image # NoImage
    /\ enc.image = TestImage(enc.mode)
    /\ enc.samples_generated > 0

\* C23: generate without an attached image returns 0 and leaves the encoder
\* unchanged, for every buffer size
C23_NoImageNoOutput ==
    [][(enc.image = NoImage /\ ret'.op = "generate")
           => (ret'.n = 0 /\ enc' = enc)]_vars

C23_Witness ==
    /\ ret.op = "generate"
    /\ ret.n = 0
    /\ enc.image = NoImage
    /\ hist.configs > 0
    /\ hist.calls = MaxGenerateCalls

(***************************************************************************)
(* SpecVisEnc: the VIS encoder alone.  It is started as the TX driver      *)
(* starts it for a mode and get_frequency is called once per step, a few   *)
(* calls past the terminal 0.                                              *)
(***************************************************************************)
\* get_frequency calls that return 0
MaxZeroCalls == 2

\* the result r of one get_frequency call becomes the next state
VisCallResult(r) ==
    /\ visenc' = r.v
    /\ ret' = [op |-> "get_frequency", fq |-> r.fq]
    /\ hist' = [hist EXCEPT
                   !.calls = @ + 1,
                   !.zeros = IF r.fq = 0 THEN @ + 1 ELSE @,
                   !.tones = IF r.fq # 0 /\ (@ = << >> \/ @[Len(@)] # r.fq)
                             THEN Append(@, r.fq) ELSE @,
                   !.held = IF r.fq # 0 THEN [@ EXCEPT ![r.v.state] = r.fq] ELSE @]

\* VISEncoder::get_frequency
VisCall ==
    /\ hist.zeros < MaxZeroCalls
    /\ VisCallResult(VISEncoder_get_frequency(visenc))
    /\ UNCHANGED <<dec, enc, input>>

InitVisEnc ==
    /\ dec = NoDecoder
    /\ enc = NoEncoder
    /\ \E m \in VisModes :
          /\ visenc = StartVisFor(VISEncoder_new, m, SampleRate)
          /\ hist = [mode |-> m, calls |-> 0, zeros |-> 0, tones |-> << >>,
                     held |-> [st \in 0 .. 22 |-> 0]]
    /\ input = << >>
    /\ ret = [op |-> "start", fq |-> 0]

NextVisEnc == VisCall

SpecVisEnc == InitVisEnc /\ [][NextVisEnc]_vars

\* the tone an 8-bit header for code has at its k-th sample, every step
\* lasting floor(duration * sample_rate) samples; 0 after the stop bit
Expected8(code, k) ==
    LET leader == MsToSamples(300, SampleRate)
        break == MsToSamples(10, SampleRate)
        bit == MsToSamples(30, SampleRate)
        data == 2 * leader + break + bit
    IN  IF k <= leader THEN 1900
        ELSE IF k <= leader + break THEN 1200
        ELSE IF k <= 2 * leader + break THEN 1900
        ELSE IF k <= data THEN 1200
        ELSE IF k <= data + 8 * bit THEN BitHz(Bit(code, (k - data - 1) \div bit))
        ELSE IF k <= data + 9 * bit THEN 1200
        ELSE 0

\* C17: the k-th get_frequency call of an 8-bit header returns the tone of
\* the sequence 1900 Hz 300 ms, 1200 Hz 10 ms, 1900 Hz 300 ms, 1200 Hz 30 ms,
\* bits 0..7 of the code 30 ms each, 1200 Hz 30 ms
C17_EightBitSequence ==
    (~visenc.is_16bit /\ ret.op = "get_frequency" /\ hist.zeros = 0)
        => ret.fq = Expected8(visenc.vis_code, hist.calls)

\* the tones of a 16-bit header in order, each named once per change:
\* leader, break, leader, start bit, bits 0..15 of the word, stop bit
ExpectedTones16(word) ==
    LET all == <<1900, 1200, 1900, 1200>>
               \o [i \in 1 .. 16 |-> BitHz(Bit(word, i - 1))] \o <<1200>>
        marks == { i \in 1 .. Len(all) : i = 1 \/ all[i] # all[i - 1] }
        nth(j) == CHOOSE i \in marks : Cardinality({ x \in marks : x <= i }) = j
    IN  [j \in 1 .. Cardinality(marks) |-> all[nth(j)]]

\* C18: a 16-bit header consists of the start of the header, the tones of
\* bits 0..15 of the word with nothing between the two bytes, one stop bit
\* and no other tone
C18_SixteenBitSequence ==
    visenc.is_16bit =>
        /\ Len(hist.tones) <= Len(ExpectedTones16(visenc.vis_code))
        /\ \A i \in 1 .. Len(hist.tones) :
               hist.tones[i] = ExpectedTones16(visenc.vis_code)[i]

\* C19: the non-zero frequencies returned before the terminal 0 are
\* get_total_samples() many
C19_ToneCountIsTotal ==
    hist.zeros > 0 =>
        hist.calls - hist.zeros = VISEncoder_get_total_samples(visenc)

\* C20: after the first 0 every call returns 0, and is_complete() is true
\* exactly from the first call that returned 0
C20_ZeroIsTerminal ==
    /\ hist.zeros > 0 => ret.fq = 0
    /\ VISEncoder_is_complete(visenc) <=> hist.zeros > 0

\* bit i (0..7) of transmitted byte k (1, 2): the tone the encoder held in
\* the i-th bit window of that byte
SentBit(k, i) == IF hist.held[4 + 8 * (k - 1) + i] = 1080 THEN 1 ELSE 0

\* C21: the eighth bit of every transmitted VIS byte is the parity of the
\* byte's seven data bits, popcount(data) mod 2
C21_SentParityIsPopcount ==
    hist.zeros > 0 =>
        \A k \in 1 .. (IF visenc.is_16bit THEN 2 ELSE 1) :
            SentBit(k, 7) = (SentBit(k, 0) + SentBit(k, 1) + SentBit(k, 2)
                             + SentBit(k, 3) + SentBit(k, 4) + SentBit(k, 5)
                             + SentBit(k, 6)) % 2

(***************************************************************************)
(* SpecTotal: get_total_samples for every mode, at several sample rates,   *)
(* with the VIS header switched on and off.                                *)
(***************************************************************************)
TotalRates == {SampleRate, 8000, 11025, 44100, 48000}

\* sstv_encoder_get_total_samples
sstv_encoder_get_total_samples(e) == e.total_samples

\* sstv_encoder_set_vis_enabled followed by sstv_encoder_get_total_samples
TotalSetVisEnabled ==
    /\ \E v \in {0, 1} :
          /\ enc' = sstv_encoder_set_vis_enabled(enc, v)
          /\ ret' = [op |-> "set_vis_enabled",
                     n |-> sstv_encoder_get_total_samples(
                               sstv_encoder_set_vis_enabled(enc, v))]
    /\ UNCHANGED <<dec, visenc, input, hist>>

InitTotal ==
    /\ dec = NoDecoder
    /\ \E m \in Modes, r \in TotalRates :
          /\ enc = sstv_encoder_create(m, r)
          /\ ret = [op |-> "create",
                    n |-> sstv_encoder_get_total_samples(sstv_encoder_create(m, r))]
    /\ visenc = NoVisEncoder
    /\ input = << >>
    /\ hist = [pass |-> 1]

NextTotal == TotalSetVisEnabled

SpecTotal == InitTotal /\ [][NextTotal]_vars

\* floor(duration_sec * sample_rate) + VIS samples + preamble samples
NominalTotal(e) ==
    LET info == sstv_get_mode_info(e.mode)
        word == get_mmsstv_vis_word(e.mode)
        vis == IF e.vis_enabled = 0 \/ (info.vis_code = 0 /\ word = 0) THEN 0
               ELSE IF word # 0 THEN MsToSamples(1210, e.sample_rate)
               ELSE MsToSamples(910, e.sample_rate)
        pre == MsToSamples(IF is_narrow_mode(e.mode) THEN 400 ELSE 800, e.sample_rate)
    IN  MsSamples(info.duration_ms, e.sample_rate) + vis + pre

\* C15: for every mode get_total_samples() is the nominal total (registry
\* duration, VIS header, preamble) within one sample per scan line
C15_TotalIsNominal ==
    LET d == ret.n - NominalTotal(enc)
    IN  /\ ret.n = sstv_encoder_get_total_samples(enc)
        /\ d <= enc.timing.line_count
        /\ -d <= enc.timing.line_count

C15_Witness ==
    /\ ret.op = "set_vis_enabled"
    /\ enc.vis_enabled = 1
    /\ get_mmsstv_vis_word(enc.mode) # 0
    /\ enc.sample_rate = 48000
    /\ ret.n # NominalTotal(enc)

(***************************************************************************)
(* SpecTxCount: complete passes at a higher sample rate, for a mode with   *)
(* an 8-bit and a mode with a 16-bit VIS header, drawn a buffer at a time. *)
(***************************************************************************)
CountRate == 3000

CountModes == {SSTV_SCOTTIE2, SSTV_MP73}

InitTxCount ==
    /\ dec = NoDecoder
    /\ \E m \in CountModes, v \in {0, 1} :
          enc = sstv_encoder_set_vis_enabled(
                    sstv_encoder_set_image(sstv_encoder_create(m, CountRate),
                                           TestImage(m)).e, v)
    /\ visenc = NoVisEncoder
    /\ input = << >>
    /\ hist = [resets |-> 0, after |-> FALSE]
    /\ ret = [op |-> "create", n |-> 0, max |-> 0]

NextTxCount == GenerateChunk

SpecTxCount == InitTxCount /\ [][NextTxCount]_vars

\* C14: at completion the number of samples generated differs from
\* get_total_samples() by at most one sample per scan line
C14_GeneratedMatchesTotal ==
    enc.complete = 1 =>
        /\ enc.samples_generated - enc.total_samples <= enc.timing.line_count
        /\ enc.total_samples - enc.samples_generated <= enc.timing.line_count

(***************************************************************************)
(* SpecCreate: the argument checks of the two constructors.  A call ends   *)
(* with a null pointer, with an object, or with the exception that         *)
(* VCO::VCO raises for a negative table size, which ends the process.      *)
(***************************************************************************)
CreateRates == {-SampleRate, -1, 0, 1, SampleRate}

CreateModes == -1 .. SSTV_MODE_COUNT

\* sstv_encoder_create: how the call ends
EncoderCreateOutcome(mode, sample_rate) ==
    IF mode < 0 \/ mode >= SSTV_MODE_COUNT THEN "null"
    ELSE IF 2 * sample_rate < 0 THEN "abort"
    ELSE "object"

\* sstv_decoder_create: how the call ends
DecoderCreateOutcome(sample_rate) ==
    IF sample_rate <= 0 THEN "null" ELSE "object"

\* sstv_encoder_create with any arguments; at rate 0 the oscillator's
\* coefficients are not numbers and only the fields below are defined
CreateEncoder ==
    /\ \E m \in CreateModes, r \in CreateRates :
          /\ ret' = [op |-> "encoder_create", mode |-> m, rate |-> r,
                     outcome |-> EncoderCreateOutcome(m, r)]
          /\ enc' = IF EncoderCreateOutcome(m, r) # "object" THEN NoEncoder
                    ELSE IF r > 0 THEN sstv_encoder_create(m, r)
                    ELSE [mode |-> m, sample_rate |-> r, total_samples |-> 0]
    /\ UNCHANGED <<dec, visenc, input, hist>>

\* sstv_decoder_create with any sample rate
CreateDecoder ==
    /\ \E r \in CreateRates :
          /\ ret' = [op |-> "decoder_create", mode |-> SSTV_MODE_COUNT, rate |-> r,
                     outcome |-> DecoderCreateOutcome(r)]
          /\ dec' = IF DecoderCreateOutcome(r) = "object"
                    THEN sstv_decoder_create(r) ELSE NoDecoder
    /\ UNCHANGED <<enc, visenc, input, hist>>

InitCreate ==
    /\ dec = NoDecoder
    /\ enc = NoEncoder
    /\ visenc = NoVisEncoder
    /\ input = << >>
    /\ hist = [pass |-> 1]
    /\ ret = [op |-> "start", mode |-> SSTV_MODE_COUNT, rate |-> SampleRate,
              outcome |-> "null"]

NextCreate == CreateEncoder \/ CreateDecoder

SpecCreate == InitCreate /\ [][NextCreate]_vars

\* C24: creating an encoder or a decoder with a sample rate that is zero or
\* negative returns null
C24_NonPositiveRateIsNull ==
    (ret.op \in {"encoder_create", "decoder_create"} /\ ret.rate <= 0)
        => ret.outcome = "null"

(***************************************************************************)
(* SpecRxFeed: feed calls with valid and invalid arguments on a decoder    *)
(* that receives a VIS header; the allocation of the image buffer at the   *)
(* mode lock may fail, and the client may reset the decoder.               *)
(***************************************************************************)
\* what is wrong with the arguments of a feed call
InvalidFeedArgs == {"null_decoder", "null_samples", "zero_count"}

\* a feed that records the error in last_status before it returns
sstv_decoder_feed_checked_marking(d, arg, samples, malloc_ok) ==
    IF arg # "valid"
    THEN [st |-> SSTV_RX_ERROR, d |-> [d EXCEPT !.last_status = SSTV_RX_ERROR]]
    ELSE sstv_decoder_feed(d, samples, malloc_ok)

\* sstv_decoder_feed with its argument test: arg names the argument that
\* is null or zero, or is "valid"
sstv_decoder_feed_checked(d, arg, samples, malloc_ok) ==
    IF arg # "valid"
    THEN [st |-> SSTV_RX_ERROR, d |-> d]
    ELSE sstv_decoder_feed(d, samples, malloc_ok)

\* the result r of a feed call with arguments arg becomes the next state
FeedCheckedResult(r, arg, malloc_ok, fed) ==
    /\ dec' = r.d
    /\ ret' = [op |-> "feed", st |-> r.st, arg |-> arg, malloc_ok |-> malloc_ok]
    /\ hist' = [hist EXCEPT !.pos = @ + fed,
                            !.ready = @ \/ (r.st = SSTV_RX_IMAGE_READY)]

\* one feed call with the samples of the next run; malloc may fail
FeedValid ==
    /\ input # << >>
    /\ \E ok \in BOOLEAN :
          FeedCheckedResult(
              sstv_decoder_feed_checked(dec, "valid", RunSamples(Head(input)), ok),
              "valid", ok, 1)
    /\ input' = Tail(input)
    /\ UNCHANGED <<enc, visenc>>

\* one feed call with a null decoder, a null buffer or no samples
FeedInvalid ==
    /\ \E arg \in InvalidFeedArgs :
          FeedCheckedResult(
              sstv_decoder_feed_checked(dec, arg, << >>, TRUE), arg, TRUE, 0)
    /\ UNCHANGED <<enc, visenc, input>>

InitRxFeed ==
    /\ dec = sstv_decoder_create(SampleRate)
    /\ enc = NoEncoder
    /\ visenc = NoVisEncoder
    /\ \E in \in RxInputs :
          /\ input = VisScript(in.bytes)
          /\ hist = [in |-> in, pos |-> 0, ready |-> FALSE,
                     resets |-> 0, configs |-> 0]
    /\ ret = [op |-> "create"]

NextRxFeed == FeedValid \/ FeedInvalid \/ Reset

SpecRxFeed == InitRxFeed /\ [][NextRxFeed]_vars

\* C25: a feed call with a null decoder, a null sample pointer or no
\* samples returns ERROR and changes nothing in the decoder
C25_InvalidFeedChangesNothing ==
    [][(ret'.op = "feed" /\ ret'.arg \in InvalidFeedArgs)
           => (ret'.st = SSTV_RX_ERROR /\ dec' = dec)]_vars

C25_Witness ==
    /\ ret.op = "feed"
    /\ ret.arg = "zero_count"
    /\ ret.st = SSTV_RX_ERROR
    /\ dec.sync_state = SYNC_VIS_DECODING
    /\ dec.last_status = SSTV_RX_NEED_MORE

\* C26: the feed call in which a mode locks and the allocation of the image
\* buffer fails returns ERROR, and so does every feed call after a feed
\* call that returned ERROR for that reason, until reset
C26_AllocationErrorIsSticky ==
    [][ret'.op = "feed" =>
          /\ (ret'.arg = "valid" /\ ~ret'.malloc_ok
               /\ dec.detected_mode = SSTV_MODE_COUNT
               /\ dec'.detected_mode # SSTV_MODE_COUNT)
                  => ret'.st = SSTV_RX_ERROR
          /\ dec.last_status = SSTV_RX_ERROR => ret'.st = SSTV_RX_ERROR]_vars

(***************************************************************************)
(* Registry lookups: sstv_get_mode_info and sstv_find_mode_by_name.  A     *)
(* name is a C string: the sequence of its character codes (ASCII), or a   *)
(* null pointer.  mode_name[mode + 1] is the name column of mode_table.    *)
(***************************************************************************)
mode_name == <<
    <<82, 111, 98, 111, 116, 32, 51, 54>>,            \* "Robot 36"
    <<82, 111, 98, 111, 116, 32, 55, 50>>,            \* "Robot 72"
    <<65, 86, 84, 32, 57, 48>>,                       \* "AVT 90"
    <<83, 99, 111, 116, 116, 105, 101, 32, 49>>,      \* "Scottie 1"
    <<83, 99, 111, 116, 116, 105, 101, 32, 50>>,      \* "Scottie 2"
    <<83, 99, 111, 116, 116, 105, 101, 68, 88>>,      \* "ScottieDX"
    <<77, 97, 114, 116, 105, 110, 32, 49>>,           \* "Martin 1"
    <<77, 97, 114, 116, 105, 110, 32, 50>>,           \* "Martin 2"
    <<83, 67, 50, 32, 49, 56, 48>>,                   \* "SC2 180"
    <<83, 67, 50, 32, 49, 50, 48>>,                   \* "SC2 120"
    <<83, 67, 50, 32, 54, 48>>,                       \* "SC2 60"
    <<80, 68, 53, 48>>,                               \* "PD50"
    <<80, 68, 57, 48>>,                               \* "PD90"
    <<80, 68, 49, 50, 48>>,                           \* "PD120"
    <<80, 68, 49, 54, 48>>,                           \* "PD160"
    <<80, 68, 49, 56, 48>>,                           \* "PD180"
    <<80, 68, 50, 52, 48>>,                           \* "PD240"
    <<80, 68, 50, 57, 48>>,                           \* "PD290"
    <<80, 51>>,                                       \* "P3"
    <<80, 53>>,                                       \* "P5"
    <<80, 55>>,                                       \* "P7"
    <<77, 82, 55, 51>>,                               \* "MR73"
    <<77, 82, 57, 48>>,                               \* "MR90"
    <<77, 82, 49, 49, 53>>,                           \* "MR115"
    <<77, 82, 49, 52, 48>>,                           \* "MR140"
    <<77, 82, 49, 55, 53>>,                           \* "MR175"
    <<77, 80, 55, 51>>,                               \* "MP73"
    <<77, 80, 49, 49, 53>>,                           \* "MP115"
    <<77, 80, 49, 52, 48>>,                           \* "MP140"
    <<77, 80, 49, 55, 53>>,                           \* "MP175"
    <<77, 76, 49, 56, 48>>,                           \* "ML180"
    <<77, 76, 50, 52, 48>>,                           \* "ML240"
    <<77, 76, 50, 56, 48>>,                           \* "ML280"
    <<77, 76, 51, 50, 48>>,                           \* "ML320"
    <<82, 111, 98, 111, 116, 32, 50, 52>>,            \* "Robot 24"
    <<66, 47, 87, 32, 56>>,                           \* "B/W 8"
    <<66, 47, 87, 32, 49, 50>>,                       \* "B/W 12"
    <<77, 80, 55, 51, 45, 78>>,                       \* "MP73-N"
    <<77, 80, 49, 49, 48, 45, 78>>,                   \* "MP110-N"
    <<77, 80, 49, 52, 48, 45, 78>>,                   \* "MP140-N"
    <<77, 67, 49, 49, 48, 45, 78>>,                   \* "MC110-N"
    <<77, 67, 49, 52, 48, 45, 78>>,                   \* "MC140-N"
    <<77, 67, 49, 56, 48, 45, 78>>                    \* "MC180-N"
    >>

CString(chars) == [is_null |-> FALSE, chars |-> chars]
NullName == [is_null |-> TRUE, chars |-> <<>>]

\* tolower of the C locale, as strcasecmp applies it to both strings
tolower(c) == IF c >= 65 /\ c <= 90 THEN c + 32 ELSE c
toupper(c) == IF c >= 97 /\ c <= 122 THEN c - 32 ELSE c
swapcase(c) == IF tolower(c) # c THEN tolower(c) ELSE toupper(c)

\* strcasecmp from position i: the difference of the first pair of folded
\* characters that differ, 0 when both strings end together
RECURSIVE strcasecmp_from(_, _, _)
strcasecmp_from(a, b, i) ==
    LET ca == IF i <= Len(a) THEN tolower(a[i]) ELSE 0
        cb == IF i <= Len(b) THEN tolower(b[i]) ELSE 0
    IN  IF ca # cb \/ ca = 0 THEN ca - cb ELSE strcasecmp_from(a, b, i + 1)

strcasecmp_sensitive(a, b) == IF a = b THEN 0 ELSE 1
strcasecmp(a, b) == strcasecmp_from(a, b, 1)

\* the loop of sstv_find_mode_by_name from index i: the first match wins
RECURSIVE find_mode_from(_, _)
find_mode_from(chars, i) ==
    IF i >= SSTV_MODE_COUNT THEN -1
    ELSE IF strcasecmp(chars, mode_name[i + 1]) = 0 THEN i
    ELSE find_mode_from(chars, i + 1)

sstv_find_mode_by_name(name) ==
    IF name.is_null THEN -1 ELSE find_mode_from(name.chars, 0)

Recase(chars, f(_)) == [i \in 1 .. Len(chars) |-> f(chars[i])]

\* spellings of the name of mode m: as stored, lower, upper, case swapped
Spellings(m) ==
    LET n == mode_name[m + 1] IN
    {n, Recase(n, tolower), Recase(n, toupper), Recase(n, swapcase)}

\* strings derived from the name of mode m that need not be names: the last
\* character dropped, an X appended, the blank or dash taken out
Misspellings(m) ==
    LET n == mode_name[m + 1] IN
    {SubSeq(n, 1, Len(n) - 1), Append(n, 88),
     SelectSeq(n, LAMBDA c : c # 32 /\ c # 45)}

ModeIdInputs == -2 .. (SSTV_MODE_COUNT + 1)

GetModeInfo ==
    /\ \E id \in ModeIdInputs :
           ret' = [op |-> "get_mode_info", id |-> id,
                   info |-> sstv_get_mode_info(id)]
    /\ UNCHANGED <<dec, enc, visenc, input, hist>>

FindModeByName ==
    /\ \E m \in Modes : \E chars \in Spellings(m) \cup Misspellings(m) :
           ret' = [op |-> "find_mode_by_name", name |-> CString(chars),
                   of |-> IF chars \in Spellings(m) THEN m ELSE -1,
                   n |-> sstv_find_mode_by_name(CString(chars))]
    /\ UNCHANGED <<dec, enc, visenc, input, hist>>

FindNullName ==
    /\ ret' = [op |-> "find_mode_by_name", name |-> NullName, of |-> -1,
               n |-> sstv_find_mode_by_name(NullName)]
    /\ UNCHANGED <<dec, enc, visenc, input, hist>>

InitRegistry ==
    /\ dec = NoDecoder
    /\ enc = NoEncoder
    /\ visenc = NoVisEncoder
    /\ input = <<>>
    /\ hist = [pass |-> 1]
    /\ ret = [op |-> "start"]

NextRegistry == GetModeInfo \/ FindModeByName \/ FindNullName

SpecRegistry == InitRegistry /\ [][NextRegistry]_vars

\* the string is the name of some mode up to letter case
IsModeName(chars) ==
    \E m \in Modes :
        /\ Len(chars) = Len(mode_name[m + 1])
        /\ \A i \in 1 .. Len(chars) :
               toupper(chars[i]) = toupper(mode_name[m + 1][i])

SyncTones == {1200, 1900}

RunCap == MsToSamples(30, SampleRate)

FeedSample ==
    /\ \E hz \in SyncTones :
           LET sample == ToneSample(hz)
               r == sstv_decoder_feed_sample(dec, sample, TRUE)
           IN  /\ dec' = r.d
               /\ ret' = [op |-> "feed_sample", st |-> r.st, hz |-> hz]
               /\ hist' = [run |-> IF SyncPredicate(dec, Demod(sample))
                                   THEN IF hist.run < RunCap
                                        THEN hist.run + 1 ELSE RunCap
                                   ELSE 0]
    /\ UNCHANGED <<enc, visenc, input>>

InitSync ==
    /\ dec = sstv_decoder_create(SampleRate)
    /\ enc = NoEncoder
    /\ visenc = NoVisEncoder
    /\ input = << >>
    /\ hist = [run |-> 0]
    /\ ret = [op |-> "create"]

NextSync == FeedSample

SpecSync == InitSync /\ [][NextSync]_vars

\* C30: the decoder goes from idle to start-bit validation only at a sample
\* that ends an uninterrupted run of at least 12 ms of samples satisfying the
\* sync predicate, whatever was fed before the run
C30_ValidationNeedsTwelveMs ==
    [][(dec.sync_state = SYNC_IDLE /\ dec'.sync_state = SYNC_DETECTED)
           => hist'.run >= MsToSamples(12, SampleRate)]_vars

(***************************************************************************)
(* VIS bit decisions sample by sample (SpecVisBits): single samples of     *)
(* mark, space, sync or leader tone are fed until a mode locks; hist.n     *)
(* counts the samples fed since validation ended or the extended byte      *)
(* began.                                                                  *)
(***************************************************************************)
BitTones == {1080, 1200, 1320, 1900}

BitWindow == MsToSamples(30, SampleRate)

FeedVisSample ==
    /\ dec.detected_mode = SSTV_MODE_COUNT
    /\ \E hz \in BitTones :
           LET r == sstv_decoder_feed_sample(dec, ToneSample(hz), TRUE)
           IN  /\ dec' = r.d
               /\ ret' = [op |-> "feed_sample", st |-> r.st, hz |-> hz]
               /\ hist' = [n |-> IF r.d.sync_mode \in {2, 9}
                                    /\ r.d.sync_mode = dec.sync_mode
                                 THEN hist.n + 1 ELSE 0]
    /\ UNCHANGED <<enc, visenc, input>>

InitVisBits ==
    /\ dec = sstv_decoder_create(SampleRate)
    /\ enc = NoEncoder
    /\ visenc = NoVisEncoder
    /\ input = << >>
    /\ hist = [n |-> 0]
    /\ ret = [op |-> "create"]

NextVisBits == FeedVisSample

SpecVisBits == InitVisBits /\ [][NextVisBits]_vars

\* the decision on a sample with energies e: 1 iff mark exceeds space
MarkWins(e) == IF e.d11 > e.d13 THEN 1 ELSE 0

\* the sample is rejected as noise instead of being decided
NotDiscriminable(d, e) ==
    e.d11 < e.d19 /\ e.d13 < e.d19 /\ Abs(e.d11 - e.d13) < s_lvl2(d.sense_level)

ChunkInputs == { <<12>>, <<60>>, <<136>>, <<1>>, <<35, 134>>, <<35, 69>> }

\* the samples of the runs runs[i .. Len(runs)] as one buffer
RECURSIVE Flatten(_, _)
Flatten(runs, i) ==
    IF i > Len(runs) THEN << >>
    ELSE RunSamples(runs[i]) \o Flatten(runs, i + 1)

\* o after sstv_decoder_feed_sample returned r
AfterSample(o, r) ==
    [d |-> r.d, ready |-> o.ready \/ r.st = SSTV_RX_IMAGE_READY]

\* one call of sstv_decoder_feed_sample on o.d; o and the result of the call
\* are computed once
FeedOneSample(o, sample) ==
    CHOOSE x \in UNION {{AfterSample(p, r) :
                            r \in {sstv_decoder_feed_sample(p.d, sample, TRUE)}} :
                        p \in {o}} : TRUE

\* samples[lo .. hi] handed to sstv_decoder_feed_sample one after the other;
\* o is [d |-> decoder, ready |-> some call returned IMAGE_READY]
RECURSIVE FeedEach(_, _, _, _)
FeedEach(o, samples, lo, hi) ==
    IF o.d.sample_rate < 0 \/ lo > hi THEN o
    ELSE IF lo = hi THEN FeedOneSample(o, samples[lo])
    ELSE LET mid == (lo + hi) \div 2
         IN  FeedEach(FeedEach(o, samples, lo, mid), samples, mid + 1, hi)

\* one feed call on dec with the given samples, the same samples singly on
\* hist.one
FeedBoth(samples, runs) ==
    \E r \in {sstv_decoder_feed(dec, samples, TRUE)},
       o \in {FeedEach([d |-> hist.one, ready |-> hist.one_ready],
                       samples, 1, Len(samples))} :
        /\ dec' = r.d
        /\ ret' = [op |-> "feed", st |-> r.st, runs |-> runs]
        /\ hist' = [hist EXCEPT !.pos = @ + runs,
                                !.ready = @ \/ (r.st = SSTV_RX_IMAGE_READY),
                                !.one = o.d, !.one_ready = o.ready]

FeedOneRun ==
    /\ input # << >>
    /\ \E samples \in {RunSamples(Head(input))} : FeedBoth(samples, 1)
    /\ input' = Tail(input)
    /\ UNCHANGED <<enc, visenc>>

\* the numbers of runs handed over in one call after the leader
RunsPerCall == {2, 4}

FeedSeveralRuns ==
    \E k \in RunsPerCall :
        /\ Len(input) >= k
        /\ hist.pos >= HeaderLen - 1
        /\ \E samples \in {Flatten(SubSeq(input, 1, k), 1)} : FeedBoth(samples, k)
        /\ input' = SubSeq(input, k + 1, Len(input))
        /\ UNCHANGED <<enc, visenc>>

InitChunks ==
    /\ \E bytes \in ChunkInputs :
           /\ input = VisScript(bytes)
           /\ hist = [in |-> bytes, pos |-> 0, ready |-> FALSE,
                      one |-> sstv_decoder_create(SampleRate),
                      one_ready |-> FALSE]
    /\ dec = sstv_decoder_create(SampleRate)
    /\ enc = NoEncoder
    /\ visenc = NoVisEncoder
    /\ ret = [op |-> "create"]

NextChunks == FeedOneRun \/ FeedSeveralRuns

SpecChunks == InitChunks /\ [][NextChunks]_vars

\* C32: after the same samples, however they were split into feed calls, the
\* decoder has the same detected mode, image cursor and image state as the
\* decoder fed one sample at a time, and IMAGE_READY was reported by both or
\* by neither
C32_ChunkingIsInvisible ==
    /\ dec.detected_mode = hist.one.detected_mode
    /\ dec.current_line = hist.one.current_line
    /\ dec.current_col = hist.one.current_col
    /\ dec.img_state = hist.one.img_state
    /\ hist.ready = hist.one_ready

(***************************************************************************)
(* Two VIS headers in a row (SpecTwoVis): a fresh decoder is fed one       *)
(* header and then another, one 30 ms window per feed call, with no reset  *)
(* in between.                                                             *)
(***************************************************************************)
\* Scottie 1 (320x256), Robot 72 (320x240), PD120 (640x496), no mode
TwoVisBytes == {60, 12, 95, 1}

InitTwoVis ==
    /\ \E b1 \in TwoVisBytes, b2 \in TwoVisBytes :
           /\ input = VisScript(<<b1>>) \o VisScript(<<b2>>)
           /\ hist = [in |-> <<b1, b2>>, pos |-> 0, ready |-> FALSE]
    /\ dec = sstv_decoder_create(SampleRate)
    /\ enc = NoEncoder
    /\ visenc = NoVisEncoder
    /\ ret = [op |-> "create"]

NextTwoVis == FeedRun \/ GetState

SpecTwoVis == InitTwoVis /\ [][NextTwoVis]_vars

\* C33: whenever an image buffer exists its width and height, and the
\* total_lines get_state reports, are those of the mode get_state reports as
\* current_mode
C33_BufferMatchesCurrentMode ==
    dec.pixels # 0 =>
        LET state == sstv_decoder_get_state(dec)
            info == sstv_get_mode_info(state.current_mode)
        IN  /\ info # NoInfo
            /\ dec.width = info.width
            /\ dec.height = info.height
            /\ state.total_lines = info.height

(***************************************************************************)
(* Image assembly (SpecAsm): a decoder that has just locked a mode from    *)
(* its VIS byte is fed pixel tones, a single sample of either tone or     *)
(* LineChunk samples of 1900 Hz per feed call, until the image is         *)
(* complete and beyond.                                                    *)
(***************************************************************************)
\* Robot 72: 320 x 240, one sample per pixel at SampleRate
AsmBytes == {12}

PixelTones == {1320, 1900}

LineChunk == 318

MaxSingles == 3

\* the decoder after one feed call carrying the header and the byte
LockedDecoder(byte) ==
    sstv_decoder_feed(sstv_decoder_create(SampleRate),
                      Flatten(HeaderRuns \o ByteRuns(byte), 1), TRUE).d

FeedPixels ==
    /\ \E hz \in PixelTones, n \in {1, LineChunk} :
           /\ n = 1 => hist.singles < MaxSingles
           /\ n # 1 => hz = 1900
           /\ \E r \in {sstv_decoder_feed(dec, [k \in 1 .. n |-> ToneSample(hz)],
                                          TRUE)} :
                  /\ dec' = r.d
                  /\ ret' = [op |-> "feed", st |-> r.st, hz |-> hz]
                  /\ hist' = [singles |-> IF n = 1 THEN hist.singles + 1
                                          ELSE hist.singles,
                              ready |-> hist.ready \/ r.st = SSTV_RX_IMAGE_READY]
    /\ UNCHANGED <<enc, visenc, input>>

InitAsm ==
    /\ \E byte \in AsmBytes : dec = LockedDecoder(byte)
    /\ enc = NoEncoder
    /\ visenc = NoVisEncoder
    /\ input = << >>
    /\ hist = [singles |-> 0, ready |-> FALSE]
    /\ ret = [op |-> "feed", st |-> SSTV_RX_NEED_MORE, hz |-> 0]

NextAsm == FeedPixels

SpecAsm == InitAsm /\ [][NextAsm]_vars

CursorInBuffer ==
    dec.pixels # 0 =>
        /\ 0 <= dec.current_col /\ dec.current_col < dec.width
        /\ 0 <= dec.current_line /\ dec.current_line <= dec.height
        /\ \A o \in decoder_store_pixel(dec) :
               0 <= o /\ o < dec.width * dec.height * 3
        /\ (dec.img_state = IMAGE_COMPLETE) = (dec.current_line = dec.height)

\* C34: while an image buffer exists the cursor stays inside it, the pixel
\* written at the cursor lies inside the width x height x 3 bytes, the image
\* is complete exactly when current_line has reached height, and
\* current_line never decreases
C34_AssemblerStaysInBuffer ==
    /\ []CursorInBuffer
    /\ [][(dec.pixels # 0 /\ dec'.pixels # 0)
              => dec'.current_line >= dec.current_line]_vars

C34_Witness ==
    /\ dec.pixels # 0
    /\ dec.detected_mode = SSTV_R72
    /\ dec.img_state = IMAGE_COMPLETE
    /\ dec.current_line = 240
    /\ ret.st = SSTV_RX_IMAGE_READY
    /\ hist.singles = MaxSingles

(***************************************************************************)
(* Synthesis of one sample (SpecSynth): the oscillator of a fresh encoder  *)
(* is driven as sstv_encoder_generate drives it, with the normalisation of *)
(* the VIS branch or of the segment branch, for up to MaxSynthCalls        *)
(* samples.                                                                *)
(***************************************************************************)
MaxSynthCalls == 3

\* frequencies get_frequency returns
VisTones == {1080, 1200, 1320, 1900}

\* sync, porch and preamble tones, and pixel tones of a few colours
SegmentTones == {1200, 1500, 1900, 2300} \cup { color_to_freq(c) : c \in {0, 64, 128, 255} }

SynthResult(o, branch, fq) ==
    /\ enc' = [enc EXCEPT !.vco = o.vco]
    /\ ret' = [op |-> branch, fq |-> fq, f |-> o.f]
    /\ hist' = [calls |-> hist.calls + 1]
    /\ UNCHANGED <<dec, visenc, input>>

\* stage 1: norm = (fq - 1080) / 1220
SynthVis ==
    /\ hist.calls < MaxSynthCalls
    /\ \E fq \in VisTones :
           SynthResult(VCO_process(enc.vco, ClampNorm(fq - 1080, 1220), 1220),
                       "vis", fq)

\* stages 0 and 2: norm = (fq - 1100) / 1200
SynthSegment ==
    /\ hist.calls < MaxSynthCalls
    /\ \E fq \in SegmentTones :
           SynthResult(VCO_process(enc.vco, ClampNorm(fq - 1100, 1200), 1200),
                       "segment", fq)

InitSynth ==
    /\ dec = NoDecoder
    /\ enc = sstv_encoder_create(SSTV_SCOTTIE1, SampleRate)
    /\ visenc = NoVisEncoder
    /\ input = << >>
    /\ hist = [calls |-> 0]
    /\ ret = [op |-> "create"]

NextSynth == SynthVis \/ SynthSegment

SpecSynth == InitSynth /\ [][NextSynth]_vars

\* C35: every sample is synthesised at the nominal frequency of what is
\* sent: the oscillator advances by exactly fq Hz for a VIS tone fq and for a
\* segment of frequency fq alike
C35_SynthesisedAtNominal ==
    ret.op \in {"vis", "segment"} => ret.f = ret.fq * FreqDen

(***************************************************************************)
(* Band-pass tap selection (checked under SpecVisBits).  use_bpf is 1 and  *)
(* both tap vectors hold bpftap + 1 >= 2 entries from creation on.         *)
(***************************************************************************)
\* the taps decoder_process_sample filters the next sample with:
\* hbpf (narrow, 1080-2600 Hz) or hbpfs (wide, 400-2500 Hz)
BpfTaps(d) == IF d.sync_mode >= 3 THEN "hbpf" ELSE "hbpfs"

\* C36: a sample processed while the decoder waits for or validates a start
\* bit passes the wide taps, a sample processed once the start bit has been
\* validated (VIS bit decoding) passes the narrow taps
C36_NarrowTapsWhileDecoding ==
    /\ dec.sync_mode \in {0, 1} => BpfTaps(dec) = "hbpfs"
    /\ dec.sync_mode \in {2, 9} => BpfTaps(dec) = "hbpf"

(***************************************************************************)
(* MN and MC modes on receive (checked under SpecVis, whose inputs are     *)
(* every byte alone and every byte after the 0x23 prefix)                  *)
(***************************************************************************)
\* the modes the registry lists with VIS code 0x00
NarrowModes == SSTV_MN73 .. SSTV_MC180

\* C40: no received VIS byte, alone or after the 0x23 prefix, locks an MN or
\* MC mode
C40_NarrowModesNeverLocked == dec.detected_mode \notin NarrowModes

(***************************************************************************)
(* SpecPd: the line scheduler over a PD50 image whose odd rows differ from *)
(* its even rows.  At PdRate every pixel segment holds at least one        *)
(* sample, so that the segment list of a line holds one entry per pushed   *)
(* segment: sync, porch, Y of the first row, R-Y, B-Y, Y of the second row.*)
(***************************************************************************)
PdRate == 4000

PdColours == {<<255, 0, 0>>, <<0, 0, 255>>}

PdImages ==
    {RowImage(320, 256, l, <<0, 255, 0>>, o) : l \in PdColours, o \in PdColours}

\* one call of generate_next_line_segments
WritePdLine ==
    /\ enc.timed_line < enc.total_timed_lines
    /\ LET r == generate_next_line_segments(enc)
       IN  /\ r.ok
           /\ enc' = r.e
           /\ ret' = [op |-> "line", row |-> enc.image_line]
    /\ UNCHANGED <<dec, visenc, input, hist>>

\* the scheduler called after the last line
PdPassEnds ==
    /\ enc.timed_line >= enc.total_timed_lines
    /\ ~generate_next_line_segments(enc).ok
    /\ ret' = [op |-> "end", row |-> enc.image_line]
    /\ UNCHANGED <<dec, enc, visenc, input, hist>>

InitPd ==
    /\ \E image \in PdImages :
           enc = sstv_encoder_set_image(sstv_encoder_create(SSTV_PD50, PdRate),
                                        image).e
    /\ dec = NoDecoder
    /\ visenc = NoVisEncoder
    /\ input = << >>
    /\ hist = [n |-> 0]
    /\ ret = [op |-> "set_image", row |-> 0]

NextPd == WritePdLine \/ PdPassEnds

SpecPd == InitPd /\ [][NextPd]_vars

\* the frequency of the segment sent for column x in part p of the line
\* (0 = Y of the first row, 1 = R-Y, 2 = B-Y, 3 = Y of the second row)
PdSent(p, x) == enc.segments[2 + p * enc.image.width + x + 1].freq

\* component ch of the pixel at column x of row y
PdComponent(ch, x, y) == get_ry(get_pixel_rgb(enc.image, x, y))[ch]

\* the averages of a and b, rounded down and rounded up
Averages(a, b) == {(a + b) \div 2, (a + b + 1) \div 2}

\* C37: a PD line carries the luminance of rows 2k and 2k+1, and for every
\* column the R-Y and the B-Y it sends are the average of the R-Y and of
\* the B-Y of the two rows (either rounding of the average is accepted)
C37_PdChromaIsRowAverage ==
    ret.op = "line" =>
        /\ Len(enc.segments) = 2 + 4 * enc.image.width
        /\ \A x \in 0 .. enc.image.width - 1 :
               /\ PdSent(0, x) = color_to_freq(PdComponent(1, x, ret.row))
               /\ PdSent(3, x) = color_to_freq(PdComponent(1, x, ret.row + 1))
               /\ \A ch \in {2, 3} :
                      PdSent(ch - 1, x) \in
                          {color_to_freq(m) :
                               m \in Averages(PdComponent(ch, x, ret.row),
                                              PdComponent(ch, x, ret.row + 1))}

(***************************************************************************)
(* SpecRows: the line scheduler of every mode, reduced to the rows of the  *)
(* image its line writers read.  The segments of a line are left out; the  *)
(* counters timed_line and image_line and the row arguments of             *)
(* get_pixel_rgb are those of the code.                                    *)
(***************************************************************************)
\* the modes whose case of generate_next_line_segments adds 2 to image_line
TwoRowModes ==
    {SSTV_R24, SSTV_BW8, SSTV_BW12}
        \cup (SSTV_PD50 .. SSTV_PD290) \cup (SSTV_MP73 .. SSTV_MP175)
        \cup (SSTV_MN73 .. SSTV_MN140)

\* the modes whose line writer also reads next_line (write_line_pd,
\* write_line_mp, write_line_rm, write_line_mn); write_line_r24 does not
NextLineModes == TwoRowModes \ {SSTV_R24}

\* the row arguments of the get_pixel_rgb calls of one scan line
RowsRead(e) ==
    LET next_line == IF e.image_line + 1 >= e.image.height
                     THEN e.image.height - 1 ELSE e.image_line + 1
    IN  {e.image_line} \cup (IF e.mode \in NextLineModes THEN {next_line} ELSE {})

\* generate_next_line_segments without the segments
ScheduleLine ==
    /\ enc.image # NoImage
    /\ enc.timed_line < enc.total_timed_lines
    /\ enc' = [enc EXCEPT !.timed_line = @ + 1,
                          !.image_line = @ + (IF enc.mode \in TwoRowModes
                                              THEN 2 ELSE 1)]
    /\ hist' = [rows |-> hist.rows \cup RowsRead(enc), lines |-> hist.lines + 1]
    /\ ret' = [op |-> "line", ok |-> TRUE]
    /\ UNCHANGED <<dec, visenc, input>>

\* generate_next_line_segments after the last line: returns false
ScheduleEnds ==
    /\ enc.timed_line >= enc.total_timed_lines
    /\ ret' = [op |-> "line", ok |-> FALSE]
    /\ UNCHANGED <<dec, enc, visenc, input, hist>>

InitRows ==
    /\ \E m \in 0 .. SSTV_MODE_COUNT - 1 :
           enc = sstv_encoder_set_image(sstv_encoder_create(m, SampleRate),
                                        TestImage(m)).e
    /\ dec = NoDecoder
    /\ visenc = NoVisEncoder
    /\ input = << >>
    /\ hist = [rows |-> {}, lines |-> 0]
    /\ ret = [op |-> "set_image", ok |-> TRUE]

NextRows == ScheduleLine \/ ScheduleEnds

SpecRows == InitRows /\ [][NextRows]_vars

\* C38: in every mode the rows read during a pass lie in 0 .. height-1, and
\* when the scheduler reports the end of the pass it has written exactly
\* line_count scan lines and read every row of the image
C38_PassReadsEveryRow ==
    /\ hist.rows \subseteq 0 .. enc.image.height - 1
    /\ (ret.op = "line" /\ ~ret.ok) =>
           /\ hist.lines = enc.timing.line_count
           /\ hist.rows = 0 .. enc.image.height - 1

(***************************************************************************)
(* SpecColour: the colour mapping of the transmitter followed by the one   *)
(* of the receiver, for every colour value.                                *)
(***************************************************************************)
ColourValues == 0 .. 255

\* color_to_freq on the transmit side, frequency_to_color on the receive side
RoundTrip ==
    /\ ret.op = "colour"
    /\ LET fq == color_to_freq(ret.c)
       IN  ret' = [op |-> "round_trip", c |-> ret.c, fq |-> fq,
                   back |-> frequency_to_color(fq, 1)]
    /\ UNCHANGED <<dec, enc, visenc, input, hist>>

InitColour ==
    /\ \E c \in ColourValues : ret = [op |-> "colour", c |-> c]
    /\ dec = NoDecoder
    /\ enc = NoEncoder
    /\ visenc = NoVisEncoder
    /\ input = << >>
    /\ hist = [n |-> 0]

NextColour == RoundTrip

SpecColour == InitColour /\ [][NextColour]_vars

\* C39: frequency_to_color(color_to_freq(c)) = c for every c in 0 .. 255
C39_ColourRoundTrip == ret.op = "round_trip" => ret.back = ret.c

====
